---- MODULE Spec2Model ----
(***************************************************************************)
(* State-machine model of hrdf-routing-engine.                             *)
(*                                                                         *)
(*  - src/src/routing/connections.rs : next_departures, get_exchange_time  *)
(*  - src/src/routing/core.rs, exploration.rs : compute_routing            *)
(*  - src/src/routing.rs, routing/storage.rs : plan_journey, get_routes    *)
(*                                                                         *)
(* Instants (NaiveDateTime) are minutes since 00:00 of day 0; a NaiveDate  *)
(* is a day number and a NaiveTime a minute of the day.  Option::None is   *)
(* the value None.  Identifiers (stops, journeys, bit fields) are small    *)
(* positive integers.                                                      *)
(***************************************************************************)
EXTENDS Integers, Sequences, FiniteSets, TLC

VARIABLES
    data_storage,   \* the parsed timetable (hrdf_parser::DataStorage), read-only
    pc,             \* position of the running operation
    args,           \* arguments of the operation under way
    ret,            \* value returned by the last pure call
    \* compute_routing (routing/core.rs) and explore_routes (routing/exploration.rs)
    routes,         \* the routes a round of exploration starts from
    solutions,      \* stop id -> best route found (NoRoute: no entry)
    earliest_arrival_by_stop_id,   \* stop id -> instant (None: no entry)
    journeys_to_ignore,            \* journeys boarded at a lower connection level
    round,          \* the loop variable i of compute_routing
    queue,          \* heap of RouteQueue: items [arrival_at, seq, route]
    seq,            \* insertion counter of RouteQueue
    new_routes,     \* routes found by the round under way
    visited_routes, \* routes already seen without a connection to explore
    current_route,  \* the route popped by the iteration under way (NoRoute: none)
    evaluated,      \* history: candidates handed to is_improving_solution
    \* plan_journey (routing.rs)
    storage,        \* the timetable view: routes, stop_times, route_stops, transfers
    labels,         \* labels[k + 1]: stop -> arrival time of round k (None: no entry)
    earliest_arrival_times,   \* stop -> time (None: no entry)
    marked_stops,
    path,           \* path[k + 1]: stop -> <<trip, boarding stop>> (NoPredecessor: no entry)
    k,              \* the round under way
    k_routes,       \* <<route index, local stop index>> still to scan in the round
    scanned,        \* index of the route being scanned (None: none)
    stop_i_local_index,       \* position the scan has reached on the route
    current_trip_index,       \* index in stop_times of the held trip (None: none)
    current_trip_boarded_at,
    round_start,    \* history: earliest_arrival_times and k_routes before the scans
    \* isochrone.rs, isochrone/utils.rs, isochrone/models.rs
    range,          \* the NaiveDateTimeRange iterator: from, to, incr
    dates,          \* the instants the iterator has yielded, collected in a Vec
    pending,        \* instants of the sweep whose map closure has not run yet
    partials,       \* IsochroneMaps the parallel reduction has still to combine
    isochrone_map,  \* the IsochroneMap get_polygons is called on: its isochrones
    cache_file,     \* isochrone/externals.rs: what the cache file of the key holds
    io_log,         \* history: the reads and writes of files and sources, in order
    \* RouteQueue (routing/utils.rs) shares queue and seq
    push_history    \* history: the routes pushed, in the order of the pushes

routing_vars == <<routes, solutions, earliest_arrival_by_stop_id, journeys_to_ignore,
                  round, queue, seq, new_routes, visited_routes, current_route,
                  evaluated>>

plan_vars == <<storage, labels, earliest_arrival_times, marked_stops, path, k, k_routes,
               scanned, stop_i_local_index, current_trip_index, current_trip_boarded_at,
               round_start>>

isochrone_vars == <<range, dates, pending, partials, isochrone_map, push_history,
                    cache_file, io_log>>

vars == <<data_storage, pc, args, ret, routing_vars, plan_vars, isochrone_vars>>

\* the variables of the isochrone module while none of its calls is under way
IsochroneIdle ==
    /\ range = << >>
    /\ dates = << >>
    /\ pending = {}
    /\ partials = {}
    /\ isochrone_map = << >>
    /\ push_history = << >>
    /\ cache_file = "absent"
    /\ io_log = << >>

\* Option::None of a path entry
NoPredecessor == << >>

\* the variables of plan_journey while no call of it is under way
PlanIdle ==
    /\ storage = << >>
    /\ labels = << >>
    /\ earliest_arrival_times = << >>
    /\ marked_stops = {}
    /\ path = << >>
    /\ k = 0
    /\ k_routes = {}
    /\ scanned = 0 - 1
    /\ stop_i_local_index = 0
    /\ current_trip_index = 0 - 1
    /\ current_trip_boarded_at = 0
    /\ round_start = << >>

None == 0 - 1

MinutesPerDay == 24 * 60

\* ------------------------------------------------------------------------
\* Bounds of the model
\* ------------------------------------------------------------------------
\* Number of instants, two minutes apart from 10:00 on, at which a traveller
\* reaches the stop of a connection lookup.
MaxArrivalSlots == 3

\* ------------------------------------------------------------------------
\* chrono / crate::utils
\* ------------------------------------------------------------------------
DateOf(t) == t \div MinutesPerDay
TimeOf(t) == t % MinutesPerDay
NewDateTime(date, time) == date * MinutesPerDay + time

\* F applied to the value of v, v being evaluated once however often F uses it
With(v, F(_)) == CHOOSE r \in { F(x) : x \in {v} } : TRUE

create_time(hour, minute) == hour * 60 + minute

add_1_day(date) == date + 1

add_minutes_to_date_time(date_time, minutes) == date_time + minutes

\* usize::try_from(..).unwrap() panics on a negative difference; the model
\* keeps every queried date inside the timetable period.
count_days_between_two_dates(date_1, date_2) == (date_2 - date_1) + 1

Min2(a, b) == IF a <= b THEN a ELSE b

\* ------------------------------------------------------------------------
\* hrdf_parser::Journey as the engine uses it.  A journey is a record
\*   [legacy_id, administration, designation, bit_field_id, route]
\* and route a sequence of entries [stop_id, arrival_time, departure_time];
\* the times are minutes counted from 00:00 of the operating day (a value
\* of MinutesPerDay or more is a stop served after midnight), None when the
\* entry has no such time.
\* ------------------------------------------------------------------------
JourneyIds == 1..Len(data_storage.journeys)

JourneyOf(id) == data_storage.journeys[id]

IdSeq(n) == [i \in 1..n |-> i]

RouteStopIds(journey) == [i \in 1..Len(journey.route) |-> journey.route[i].stop_id]

PassesThrough(journey, stop_id) ==
    \E i \in 1..Len(journey.route) : journey.route[i].stop_id = stop_id

\* position of the first entry of the route at stop_id, from entry `from` on
FirstIndexFrom(journey, stop_id, from) ==
    CHOOSE i \in from..Len(journey.route) :
        /\ journey.route[i].stop_id = stop_id
        /\ \A j \in from..(i - 1) : journey.route[j].stop_id # stop_id

first_stop_id(journey) == journey.route[1].stop_id

last_stop_id(journey) == journey.route[Len(journey.route)].stop_id

is_last_stop(journey, stop_id, ignore_loop) ==
    IF ignore_loop /\ first_stop_id(journey) = stop_id
    THEN FALSE
    ELSE stop_id = last_stop_id(journey)

\* departure instant at the first entry of stop_id, the route starting on `date`
departure_at_of(journey, stop_id, date) ==
    NewDateTime(date, journey.route[FirstIndexFrom(journey, stop_id, 1)].departure_time)

\* the route's identity seen from a stop: the stops served from there on;
\* NoHash (Option::None) when the journey does not serve the stop
NoHash == << >>

hash_route(journey, departure_stop_id) ==
    IF PassesThrough(journey, departure_stop_id)
    THEN SubSeq(RouteStopIds(journey),
                FirstIndexFrom(journey, departure_stop_id, 1), Len(journey.route))
    ELSE NoHash

\* ------------------------------------------------------------------------
\* src/src/routing/connections.rs
\* ------------------------------------------------------------------------
get_operating_journeys(date, stop_id) ==
    SelectSeq(IdSeq(Len(data_storage.journeys)),
              LAMBDA id :
                  /\ JourneyOf(id).bit_field_id \in data_storage.bit_fields_by_day[date]
                  /\ PassesThrough(JourneyOf(id), stop_id))

has_through_service(date, journey_1_legacy_id, journey_1_admin, journey_2_legacy_id, journey_2_admin, stop_id) ==
    \E e \in data_storage.through_service :
        /\ e.journey_1 = <<journey_1_legacy_id, journey_1_admin>>
        /\ e.journey_2 = <<journey_2_legacy_id, journey_2_admin>>
        /\ e.stop_id = stop_id
        /\ e.bit_field_id \in data_storage.bit_fields_by_day[date]

exchange_time_at_stop(exchange_time, transport_type_1, transport_type_2) ==
    IF transport_type_1 = "IC" /\ transport_type_2 = "IC"
    THEN exchange_time[1]
    ELSE exchange_time[2]

\* the entries of exchange_times_journey_map for the key, in stored order
JourneyPairEntries(stop_id, journey_legacy_id_1, administration_1, journey_legacy_id_2, administration_2) ==
    SelectSeq(data_storage.exchange_times_journey,
              LAMBDA e :
                  /\ e.stop_id = stop_id
                  /\ e.journey_1 = <<journey_legacy_id_1, administration_1>>
                  /\ e.journey_2 = <<journey_legacy_id_2, administration_2>>)

\* "2 +" because a 2-bit offset is mandatory, "- 1" to obtain an index
BitIndex(departure_at) ==
    2 + count_days_between_two_dates(DateOf(departure_at),
                                     data_storage.timetable_end_date) - 1

\* bits()[index] of a bit field (indices start at 0)
BitOf(bit_field_id, index) == data_storage.bit_fields[bit_field_id][index + 1]

JourneyPairEntryIsValid(e, departure_at) ==
    \/ e.bit_field_id = None
    \/ BitOf(e.bit_field_id, BitIndex(departure_at)) = 1

exchange_time_journey_pair(stop_id, journey_legacy_id_1, administration_1, journey_legacy_id_2, administration_2, departure_at) ==
    LET exchange_times == JourneyPairEntries(stop_id, journey_legacy_id_1,
                              administration_1, journey_legacy_id_2, administration_2)
        valid == { i \in 1..Len(exchange_times) :
                       JourneyPairEntryIsValid(exchange_times[i], departure_at) }
    IN  IF valid = {}
        THEN None
        ELSE exchange_times[CHOOSE i \in valid : \A j \in valid : i <= j].duration

\* exchange_times_administration_map.get(key) followed by find(id).duration()
AdministrationEntries(stop_key, administration_1, administration_2) ==
    { e \in data_storage.exchange_times_administration :
          /\ e.stop_id = stop_key
          /\ e.administration_1 = administration_1
          /\ e.administration_2 = administration_2 }

AdministrationDuration(stop_key, administration_1, administration_2) ==
    (CHOOSE e \in AdministrationEntries(stop_key, administration_1, administration_2) :
         TRUE).duration

\* a stop's exchange_time(): NoExchangeTime (Option::None) or a pair of minutes
NoExchangeTime == << >>

\* get_exchange_time with the stop's own exchange time consulted before the
\* administration pair registered at the stop
get_exchange_time_StopFirst(stop_id, journey_id_1, journey_id_2, departure_at) ==
    LET stop == data_storage.stops[stop_id]
        journey_1 == JourneyOf(journey_id_1)
        journey_2 == JourneyOf(journey_id_2)
        pair == exchange_time_journey_pair(stop_id,
                    journey_1.legacy_id, journey_1.administration,
                    journey_2.legacy_id, journey_2.administration, departure_at)
    IN  IF pair # None
        THEN pair
        ELSE IF stop.exchange_time # NoExchangeTime
        THEN exchange_time_at_stop(stop.exchange_time,
                                   journey_1.designation, journey_2.designation)
        ELSE IF AdministrationEntries(stop_id, journey_1.administration,
                                      journey_2.administration) # {}
        THEN AdministrationDuration(stop_id, journey_1.administration,
                                    journey_2.administration)
        ELSE IF AdministrationEntries(None, journey_1.administration,
                                      journey_2.administration) # {}
        THEN AdministrationDuration(None, journey_1.administration,
                                    journey_2.administration)
        ELSE exchange_time_at_stop(data_storage.default_exchange_time,
                                   journey_1.designation, journey_2.designation)

get_exchange_time(stop_id, journey_id_1, journey_id_2, departure_at) ==
    LET stop == data_storage.stops[stop_id]
        journey_1 == JourneyOf(journey_id_1)
        journey_2 == JourneyOf(journey_id_2)
        pair == exchange_time_journey_pair(stop_id,
                    journey_1.legacy_id, journey_1.administration,
                    journey_2.legacy_id, journey_2.administration, departure_at)
    IN  IF pair # None
        THEN pair
        ELSE IF AdministrationEntries(stop_id, journey_1.administration,
                                      journey_2.administration) # {}
        THEN AdministrationDuration(stop_id, journey_1.administration,
                                    journey_2.administration)
        ELSE IF stop.exchange_time # NoExchangeTime
        THEN exchange_time_at_stop(stop.exchange_time,
                                   journey_1.designation, journey_2.designation)
        ELSE IF AdministrationEntries(None, journey_1.administration,
                                      journey_2.administration) # {}
        THEN AdministrationDuration(None, journey_1.administration,
                                    journey_2.administration)
        ELSE exchange_time_at_stop(data_storage.default_exchange_time,
                                   journey_1.designation, journey_2.designation)

\* a stable sort (sort_by_key) of a sequence of <<key, item>>: the items by
\* ascending key, items of equal key in their given order
SortByKey(keyed) ==
    With(keyed, LAMBDA xs :
        LET rank(j) == Cardinality({ m \in 1..Len(xs) :
                                       \/ xs[m][1] < xs[j][1]
                                       \/ xs[m][1] = xs[j][1] /\ m < j })
        IN  [pos \in 1..Len(xs) |-> xs[CHOOSE j \in 1..Len(xs) : rank(j) = pos - 1][2]])

SortByDeparture(journeys) ==
    With(journeys, LAMBDA xs : SortByKey([j \in 1..Len(xs) |-> <<xs[j][2], xs[j]>>]))

\* The journeys operating on `date` that leave stop_id, each with its departure
\* instant (journeys of one day are listed by ascending id).
get_journeys(date, stop_id) ==
    LET ids == SelectSeq(get_operating_journeys(date, stop_id),
                         LAMBDA id : ~is_last_stop(JourneyOf(id), stop_id, TRUE))
    IN  [i \in 1..Len(ids) |-> <<ids[i], departure_at_of(JourneyOf(ids[i]), stop_id, date)>>]

\* max_departure_at computed while mapping the journeys of get_journeys
MaxDepartureOf(journeys, date) ==
    LET start == NewDateTime(date, create_time(0, 0))
        all   == { journeys[i][2] : i \in 1..Len(journeys) } \cup {start}
    IN  CHOOSE m \in all : \A x \in all : x <= m

\* first filter of next_departures: the first journey of every route (hash) not
\* yet in routes_to_ignore is kept, the later ones are dropped
RECURSIVE FirstOfEachRoute(_, _, _)
FirstOfEachRoute(journeys, routes_to_ignore, departure_stop_id) ==
    IF journeys = << >>
    THEN << >>
    ELSE With(<<Tail(journeys), routes_to_ignore,
                hash_route(JourneyOf(journeys[1][1]), departure_stop_id)>>,
              LAMBDA x :
                 IF x[3] \notin x[2]
                 THEN <<journeys[1]>> \o
                      FirstOfEachRoute(x[1], x[2] \cup {x[3]}, departure_stop_id)
                 ELSE FirstOfEachRoute(x[1], x[2], departure_stop_id))

\* the second filter without the exchange time: any later departure is boarded
EnoughTimeToEmbark_NoExchangeTime(entry, departure_stop_id, departure_at, previous_journey_id) ==
    departure_at <= entry[2]

\* second filter of next_departures: is there enough time to board `entry`
\* when arriving with previous_journey_id at departure_at
EnoughTimeToEmbark(entry, departure_stop_id, departure_at, previous_journey_id) ==
    \/ previous_journey_id = None
    \/ LET previous_journey == JourneyOf(previous_journey_id)
           journey == JourneyOf(entry[1])
       IN  IF ~has_through_service(DateOf(departure_at),
                   previous_journey.legacy_id, previous_journey.administration,
                   journey.legacy_id, journey.administration, departure_stop_id)
           THEN add_minutes_to_date_time(departure_at,
                    get_exchange_time(departure_stop_id, previous_journey_id,
                                      entry[1], entry[2])) <= entry[2]
           ELSE TRUE

\* the window of departures considered: <<journeys of the next day, latest departure>>
DepartureWindow(departure_stop_id, departure_at) ==
    LET journeys_1 == get_journeys(DateOf(departure_at), departure_stop_id)
        adjusted   == MaxDepartureOf(journeys_1, DateOf(departure_at)) - 4 * 60
    IN  IF departure_at > adjusted
        THEN <<get_journeys(add_1_day(DateOf(departure_at)), departure_stop_id),
               NewDateTime(add_1_day(DateOf(departure_at)), create_time(8, 0))>>
        ELSE << << >>,
                IF TimeOf(departure_at) < create_time(8, 0)
                THEN NewDateTime(DateOf(departure_at), create_time(8, 0))
                ELSE departure_at + 4 * 60 >>

\* journeys that leave in the window, sorted by ascending departure instant
DeparturesInWindow(departure_stop_id, departure_at) ==
    With(DepartureWindow(departure_stop_id, departure_at), LAMBDA window :
        SortByDeparture(
            SelectSeq(get_journeys(DateOf(departure_at), departure_stop_id) \o window[1],
                      LAMBDA e : e[2] >= departure_at /\ e[2] <= window[2])))

\* routes_to_ignore: a set of route hashes (empty for Option::None);
\* previous_journey_id: a journey id or None
next_departures(departure_stop_id, departure_at, routes_to_ignore, previous_journey_id) ==
    With(DeparturesInWindow(departure_stop_id, departure_at), LAMBDA journeys :
        SelectSeq(
            FirstOfEachRoute(journeys, routes_to_ignore, departure_stop_id),
            LAMBDA e : EnoughTimeToEmbark(e, departure_stop_id, departure_at,
                                          previous_journey_id)))

\* ------------------------------------------------------------------------
\* hrdf_parser::Journey: arrival instants and sections of a route
\* ------------------------------------------------------------------------
\* Arrival instant at stop_id when `date` is the date on which the journey
\* leaves (is_departure_date) or reaches (otherwise) origin_stop_id.
arrival_at_of_with_origin(journey, stop_id, date, is_departure_date, origin_stop_id) ==
    LET origin_time ==
            IF is_departure_date
            THEN journey.route[FirstIndexFrom(journey, origin_stop_id, 1)].departure_time
            ELSE journey.route[FirstIndexFrom(journey, origin_stop_id, 2)].arrival_time
        first_day == date - (origin_time \div MinutesPerDay)
    IN  NewDateTime(first_day, journey.route[FirstIndexFrom(journey, stop_id, 2)].arrival_time)

\* the entries after departure_stop_id up to and including arrival_stop_id
route_section(journey, departure_stop_id, arrival_stop_id) ==
    LET from == FirstIndexFrom(journey, departure_stop_id, 1) + 1
        to   == IF \E i \in from..Len(journey.route) :
                       journey.route[i].stop_id = arrival_stop_id
                THEN FirstIndexFrom(journey, arrival_stop_id, from)
                ELSE Len(journey.route)
    IN  SubSeq(journey.route, from, to)

count_stops(journey, departure_stop_id, arrival_stop_id) ==
    Len(route_section(journey, departure_stop_id, arrival_stop_id)) + 1

\* ------------------------------------------------------------------------
\* src/src/routing/models.rs: RouteSection and Route
\* ------------------------------------------------------------------------
MkSection(journey_id, departure_stop_id, arrival_stop_id, arrival_at, duration) ==
    [journey_id |-> journey_id, departure_stop_id |-> departure_stop_id,
     arrival_stop_id |-> arrival_stop_id, arrival_at |-> arrival_at,
     duration |-> duration]

MkRoute(sections, visited_stops) ==
    [sections |-> sections, visited_stops |-> visited_stops]

\* Option<Route>::None
NoRoute == MkRoute(<< >>, {})

\* the routing variables while no compute_routing call is under way
RoutingIdle ==
    /\ routes = << >>
    /\ solutions = << >>
    /\ earliest_arrival_by_stop_id = << >>
    /\ journeys_to_ignore = {}
    /\ round = 0
    /\ queue = {}
    /\ seq = 0
    /\ new_routes = << >>
    /\ visited_routes = {}
    /\ current_route = NoRoute
    /\ evaluated = {}

last_section(route) == route.sections[Len(route.sections)]

arrival_stop_id(route) == last_section(route).arrival_stop_id

arrival_at(route) == last_section(route).arrival_at

has_visited_any_stops(route, stops) == route.visited_stops \cap stops # {}

sections_having_journey(route) ==
    SelectSeq(route.sections, LAMBDA section : section.journey_id # None)

count_connections(route) == Len(sections_having_journey(route))

\* the route with its last section replaced
WithLastSection(route, section) ==
    MkRoute(SubSeq(route.sections, 1, Len(route.sections) - 1) \o <<section>>,
            route.visited_stops)

\* ------------------------------------------------------------------------
\* RouteSection::find_next and Route::extend (the impl blocks of the routing
\* module that compute_routing calls)
\* ------------------------------------------------------------------------
NotFound == [found |-> FALSE, section |-> MkSection(None, 0, 0, 0, None),
             visited_stops |-> {}]

\* The section of the journey from departure_stop_id to the next stop that can
\* be used as an exchange point or is the journey's last stop, with the stops
\* passed on the way.
find_next(journey_id, departure_stop_id, date, is_departure_date) ==
    LET journey == JourneyOf(journey_id)
        from == IF PassesThrough(journey, departure_stop_id)
                THEN FirstIndexFrom(journey, departure_stop_id, 1) + 1
                ELSE Len(journey.route) + 1
        ends == { i \in from..Len(journey.route) :
                    \/ data_storage.stops[journey.route[i].stop_id].exchange_point
                    \/ is_last_stop(journey, journey.route[i].stop_id, FALSE) }
    IN  IF ends = {}
        THEN NotFound
        ELSE With(CHOOSE i \in ends : \A j \in ends : i <= j, LAMBDA to :
                 [found |-> TRUE,
                  section |-> MkSection(journey_id, departure_stop_id,
                                  journey.route[to].stop_id,
                                  arrival_at_of_with_origin(journey,
                                      journey.route[to].stop_id, date,
                                      is_departure_date, departure_stop_id),
                                  None),
                  visited_stops |-> { journey.route[i].stop_id : i \in from..to }])

\* The route continued with the journey from its arrival stop: NoRoute at the
\* journey's last stop, when no section follows, or when the section comes
\* back to a visited stop other than the journey's first stop.
extend(route, journey_id, date, is_departure_date) ==
    LET journey == JourneyOf(journey_id)
        is_same_journey == last_section(route).journey_id = journey_id
    IN  With(find_next(journey_id, arrival_stop_id(route), date, is_departure_date),
             LAMBDA next :
        IF is_last_stop(journey, arrival_stop_id(route), FALSE)
        THEN NoRoute
        ELSE IF ~next.found
        THEN NoRoute
        ELSE IF /\ has_visited_any_stops(route, next.visited_stops)
                /\ next.section.arrival_stop_id # first_stop_id(journey)
        THEN NoRoute
        ELSE MkRoute(
                 IF is_same_journey
                 THEN SubSeq(route.sections, 1, Len(route.sections) - 1) \o
                      << [last_section(route) EXCEPT
                             !.arrival_stop_id = next.section.arrival_stop_id,
                             !.arrival_at = next.section.arrival_at] >>
                 ELSE route.sections \o <<next.section>>,
                 route.visited_stops \cup next.visited_stops))

\* ------------------------------------------------------------------------
\* src/src/routing/utils.rs
\* ------------------------------------------------------------------------
StopIds == DOMAIN data_storage.stops

get_stop_connections(stop_id) ==
    SelectSeq(data_storage.stop_connections,
              LAMBDA stop_connection : stop_connection.stop_id_1 = stop_id)

get_routes_to_ignore(route) ==
    { hash_route(JourneyOf(route.sections[j].journey_id), arrival_stop_id(route)) :
        j \in { n \in 1..Len(route.sections) : route.sections[n].journey_id # None } }
    \ {NoHash}

\* RouteQueue: the heap as the set of its items
RouteHeapItem(route, n) == [arrival_at |-> arrival_at(route), seq |-> n, route |-> route]

\* Ord for RouteHeapItem: the greatest item, popped first, has the earliest
\* arrival_at and, among equals, the lowest seq
HeapTop(heap) ==
    CHOOSE x \in heap : \A y \in heap :
        \/ x.arrival_at < y.arrival_at
        \/ x.arrival_at = y.arrival_at /\ x.seq <= y.seq

\* RouteQueue::push of each route of `pushed`, the counter being at n
PushAll(heap, n, pushed) ==
    heap \cup { RouteHeapItem(pushed[j], n + j - 1) : j \in 1..Len(pushed) }

\* routes in ascending order of arrival, equal arrivals in their given order
sort_routes(rs) ==
    With(rs, LAMBDA xs : SortByKey([j \in 1..Len(xs) |-> <<arrival_at(xs[j]), xs[j]>>]))

\* ------------------------------------------------------------------------
\* src/src/routing/core.rs
\* ------------------------------------------------------------------------
create_initial_routes(departure_stop_id, departure_at) ==
    With(next_departures(departure_stop_id, departure_at, {}, None), LAMBDA departures :
    With(SelectSeq([j \in 1..Len(departures) |->
                       find_next(departures[j][1], departure_stop_id,
                                 DateOf(departures[j][2]), TRUE)],
                   LAMBDA next : next.found), LAMBDA boardable :
    With(get_stop_connections(departure_stop_id), LAMBDA stop_connections :
        [j \in 1..Len(boardable) |->
            MkRoute(<<boardable[j].section>>,
                    boardable[j].visited_stops \cup {departure_stop_id})]
        \o
        [j \in 1..Len(stop_connections) |->
            MkRoute(<<MkSection(None, stop_connections[j].stop_id_1,
                          stop_connections[j].stop_id_2,
                          add_minutes_to_date_time(departure_at, stop_connections[j].duration),
                          stop_connections[j].duration)>>,
                    {stop_connections[j].stop_id_1, stop_connections[j].stop_id_2})])))

\* Only for a route whose last section has a journey.
update_arrival_stop(route, stop_id) ==
    LET section == last_section(route)
    IN  WithLastSection(route,
            [section EXCEPT
                !.arrival_stop_id = stop_id,
                !.arrival_at = arrival_at_of_with_origin(JourneyOf(section.journey_id),
                                   stop_id, DateOf(section.arrival_at), FALSE,
                                   section.arrival_stop_id)])

can_improve_solution(route, solution) ==
    solution = NoRoute \/ arrival_at(route) <= arrival_at(solution)

SectionStops(section) ==
    count_stops(JourneyOf(section.journey_id), section.departure_stop_id,
                section.arrival_stop_id)

\* the first vehicle section in which the stop counts of the two routes differ
\* (0: none), both routes having the same number of vehicle sections
FirstDifference(sections_1, sections_2) ==
    LET differing == { j \in 1..Len(sections_1) :
                         SectionStops(sections_1[j]) # SectionStops(sections_2[j]) }
    IN  IF differing = {} THEN 0
        ELSE CHOOSE j \in differing : \A m \in differing : j <= m

is_improving_solution_FewerStops(candidate, solution) ==
    LET sections_1 == sections_having_journey(candidate)
        sections_2 == sections_having_journey(solution)
        d == FirstDifference(sections_1, sections_2)
    IN  IF Len(candidate.sections) = 1 /\ last_section(candidate).journey_id = None
        THEN FALSE
        ELSE IF solution = NoRoute
        THEN TRUE
        ELSE IF arrival_at(candidate) # arrival_at(solution)
        THEN arrival_at(candidate) < arrival_at(solution)
        ELSE IF Len(sections_1) # Len(sections_2)
        THEN Len(sections_1) < Len(sections_2)
        ELSE IF d = 0
        THEN FALSE
        ELSE SectionStops(sections_1[d]) < SectionStops(sections_2[d])

is_improving_solution(candidate, solution) ==
    LET sections_1 == sections_having_journey(candidate)
        sections_2 == sections_having_journey(solution)
        d == FirstDifference(sections_1, sections_2)
    IN  IF Len(candidate.sections) = 1 /\ last_section(candidate).journey_id = None
        THEN FALSE
        ELSE IF solution = NoRoute
        THEN TRUE
        ELSE IF arrival_at(candidate) # arrival_at(solution)
        THEN arrival_at(candidate) < arrival_at(solution)
        ELSE IF Len(sections_1) # Len(sections_2)
        THEN Len(sections_1) < Len(sections_2)
        ELSE IF d = 0
        THEN FALSE
        ELSE SectionStops(sections_1[d]) > SectionStops(sections_2[d])

OneToOneCandidate(route, stop_id) ==
    IF last_section(route).journey_id = None
    THEN route
    ELSE update_arrival_stop(route, stop_id)

\* [continue: the closure's result, solutions: the map after the call,
\*  evaluated: the candidates handed to is_improving_solution]
can_continue_exploration_one_to_one(route, found, stop_id) ==
    IF stop_id \notin route.visited_stops
    THEN [continue |-> can_improve_solution(route, found[stop_id]),
          solutions |-> found, evaluated |-> {}]
    ELSE With(OneToOneCandidate(route, stop_id), LAMBDA candidate :
             [continue |-> FALSE,
              solutions |-> IF is_improving_solution(candidate, found[stop_id])
                            THEN [found EXCEPT ![stop_id] = candidate]
                            ELSE found,
              evaluated |-> {candidate}])

evaluate_candidate_NoTimeLimit(candidate, found, time_limit) ==
    IF is_improving_solution(candidate, found[arrival_stop_id(candidate)])
    THEN [found EXCEPT ![arrival_stop_id(candidate)] = candidate]
    ELSE found

evaluate_candidate(candidate, found, time_limit) ==
    IF arrival_at(candidate) > time_limit
    THEN found
    ELSE IF is_improving_solution(candidate, found[arrival_stop_id(candidate)])
    THEN [found EXCEPT ![arrival_stop_id(candidate)] = candidate]
    ELSE found

\* the candidates of a route: itself after a walk, else one per stop of its
\* last section, in the order of the journey
OneToManyCandidates(route) ==
    IF last_section(route).journey_id = None
    THEN <<route>>
    ELSE LET section == last_section(route)
             entries == route_section(JourneyOf(section.journey_id),
                            section.departure_stop_id, section.arrival_stop_id)
         IN  [j \in 1..Len(entries) |-> update_arrival_stop(route, entries[j].stop_id)]

RECURSIVE EvaluateCandidates(_, _, _)
EvaluateCandidates(candidates, found, time_limit) ==
    IF candidates = << >>
    THEN found
    ELSE With(evaluate_candidate(Head(candidates), found, time_limit), LAMBDA kept :
             EvaluateCandidates(Tail(candidates), kept, time_limit))

can_continue_exploration_one_to_many(route, found, time_limit) ==
    With(OneToManyCandidates(route), LAMBDA candidates :
        [continue |-> arrival_at(route) < time_limit,
         solutions |-> EvaluateCandidates(candidates, found, time_limit),
         evaluated |-> { candidates[j] : j \in { n \in 1..Len(candidates) :
                             arrival_at(candidates[n]) <= time_limit } }])

\* the closure compute_routing hands to explore_routes
can_continue_exploration(route, found) ==
    IF args.mode = "SolveFromDepartureStopToArrivalStop"
    THEN can_continue_exploration_one_to_one(route, found, args.arrival_stop_id)
    ELSE can_continue_exploration_one_to_many(route, found, args.time_limit)

\* ------------------------------------------------------------------------
\* src/src/routing/connections.rs: get_connections
\* ------------------------------------------------------------------------
get_connections(route, ignored_journeys) ==
    With(SelectSeq(next_departures(arrival_stop_id(route), arrival_at(route),
                       get_routes_to_ignore(route), last_section(route).journey_id),
                   LAMBDA d : d[1] \notin ignored_journeys), LAMBDA departures :
        SelectSeq([j \in 1..Len(departures) |->
                      extend(route, departures[j][1], DateOf(departures[j][2]), TRUE)],
                  LAMBDA r : r # NoRoute))

\* ------------------------------------------------------------------------
\* src/src/routing/exploration.rs
\* ------------------------------------------------------------------------
\* the routes explore_last_route_section_more_if_possible pushes on the queue
explore_last_route_section_more_if_possible(route) ==
    IF last_section(route).journey_id = None
    THEN << >>
    ELSE SelectSeq(<<extend(route, last_section(route).journey_id,
                            DateOf(arrival_at(route)), FALSE)>>,
                   LAMBDA new_route : new_route # NoRoute)

\* admitting a route that is only as early as the recorded one
can_explore_connections_OrAsEarly(route, earliest) ==
    LET stop_id == arrival_stop_id(route)
    IN  /\ stop_id \in StopIds
        /\ data_storage.stops[stop_id].exchange_point
        /\ \/ earliest[stop_id] = None
           \/ arrival_at(route) <= earliest[stop_id]

can_explore_connections(route, earliest) ==
    LET stop_id == arrival_stop_id(route)
    IN  /\ stop_id \in StopIds
        /\ data_storage.stops[stop_id].exchange_point
        /\ \/ earliest[stop_id] = None
           \/ arrival_at(route) < earliest[stop_id]

\* the routes explore_nearby_stops pushes on the queue
explore_nearby_stops(route) ==
    IF last_section(route).journey_id = None
    THEN << >>
    ELSE With(SelectSeq(get_stop_connections(arrival_stop_id(route)),
                     LAMBDA c : /\ c.stop_id_2 \in StopIds
                                /\ c.stop_id_2 \notin route.visited_stops),
              LAMBDA stop_connections :
             [j \in 1..Len(stop_connections) |->
                 MkRoute(route.sections \o
                         <<MkSection(None, stop_connections[j].stop_id_1,
                               stop_connections[j].stop_id_2,
                               add_minutes_to_date_time(arrival_at(route),
                                   stop_connections[j].duration),
                               stop_connections[j].duration)>>,
                         route.visited_stops \cup {stop_connections[j].stop_id_2})])

\* never taking a route for one already seen
RouteStayedTheSame_Never(route, seen) == FALSE

\* has the route been popped before without a connection to explore
RouteStayedTheSame(route, seen) == route \in seen

\* ------------------------------------------------------------------------
\* Timetables.  Three bit fields: 1 runs every day, 2 on day 0 only, 3 on
\* day 1 only; the timetable period is days 0..2.
\* ------------------------------------------------------------------------
Dates == 0..2

BitFieldsByDay == [d \in Dates |-> CASE d = 0 -> {1, 2} [] d = 1 -> {1, 3} [] OTHER -> {1}]

\* bits of the three bit fields at the indices BitIndex yields (2 for day 2,
\* 3 for day 1, 4 for day 0), after the mandatory 2-bit offset
BitFields == << <<0, 0, 1, 1, 1, 0>>, <<0, 0, 0, 0, 1, 0>>, <<0, 0, 0, 1, 0, 0>> >>

Entry(stop_id, arrival_time, departure_time) ==
    [stop_id |-> stop_id, arrival_time |-> arrival_time, departure_time |-> departure_time]

MkJourney(legacy_id, administration, designation, bit_field_id, route) ==
    [legacy_id |-> legacy_id, administration |-> administration,
     designation |-> designation, bit_field_id |-> bit_field_id, route |-> route]

MkStop(exchange_point, exchange_time) ==
    [exchange_point |-> exchange_point, exchange_time |-> exchange_time]

MkStorage(journeys, stops, stop_connections, through_service, exchange_times_journey, exchange_times_administration) ==
    [journeys |-> journeys,
     stops |-> stops,
     stop_connections |-> stop_connections,
     through_service |-> through_service,
     exchange_times_journey |-> exchange_times_journey,
     exchange_times_administration |-> exchange_times_administration,
     default_exchange_time |-> <<6, 2>>,
     bit_fields_by_day |-> BitFieldsByDay,
     bit_fields |-> BitFields,
     timetable_end_date |-> 2]

\* --- timetable of the connection lookups: journey 1 (administration "A")
\* reaches stop 2 at 10:00; journeys 2 and 4 (one route, 2 -> 3), journey 3
\* (2 -> 1) and journey 5 (2 -> 3 -> 1) of administration "B" leave stop 2
\* shortly after.
ConnectionJourneys(designation_1, designation_2) ==
    << MkJourney(11, "A", designation_1, 1,
                 <<Entry(1, None, 590), Entry(2, 600, None)>>),
       MkJourney(12, "B", designation_2, 1,
                 <<Entry(2, None, 602), Entry(3, 620, None)>>),
       MkJourney(13, "B", "R", 1,
                 <<Entry(2, None, 605), Entry(1, 625, None)>>),
       MkJourney(14, "B", designation_2, 1,
                 <<Entry(2, None, 607), Entry(3, 627, None)>>),
       MkJourney(15, "B", "R", 1,
                 <<Entry(2, None, 609), Entry(3, 629, 630), Entry(1, 650, None)>>) >>

PairEntry(stop_id, legacy_1, legacy_2, duration, bit_field_id) ==
    [stop_id |-> stop_id, journey_1 |-> <<legacy_1, "A">>, journey_2 |-> <<legacy_2, "B">>,
     duration |-> duration, bit_field_id |-> bit_field_id]

\* exchange_times_journey tables tried
JourneyPairTables ==
    { << >>,
      << PairEntry(2, 11, 12, 1, None) >>,
      << PairEntry(2, 11, 12, 1, 2) >>,
      << PairEntry(2, 11, 12, 1, 2), PairEntry(2, 11, 12, 8, 3) >>,
      << PairEntry(3, 11, 12, 1, None), PairEntry(2, 11, 13, 9, None) >> }

AdminEntry(stop_key, duration) ==
    [stop_id |-> stop_key, administration_1 |-> "A", administration_2 |-> "B",
     duration |-> duration]

\* exchange_times_administration tables tried
AdministrationTables == SUBSET { AdminEntry(2, 4), AdminEntry(None, 5), AdminEntry(3, 10) }

ThroughEntry(legacy_1, legacy_2, stop_id, bit_field_id) ==
    [journey_1 |-> <<legacy_1, "A">>, journey_2 |-> <<legacy_2, "B">>,
     stop_id |-> stop_id, bit_field_id |-> bit_field_id]

\* through-service tables tried
ThroughTables == { {}, {ThroughEntry(11, 12, 2, 1)}, {ThroughEntry(11, 12, 2, 3)},
                   {ThroughEntry(11, 13, 2, 2), ThroughEntry(11, 12, 3, 1)} }

ConnectionStorages ==
    { MkStorage(ConnectionJourneys(d1, d2),
                [s \in 1..3 |-> MkStop(TRUE, IF s = 2 THEN et ELSE NoExchangeTime)],
                << >>, th, pt, at) :
        d1 \in {"IC", "R"}, d2 \in {"IC", "R"}, et \in {NoExchangeTime, <<7, 3>>},
        th \in ThroughTables, pt \in JourneyPairTables, at \in AdministrationTables }

\* ------------------------------------------------------------------------
\* Specification of the connection lookups: one call of get_exchange_time or
\* of next_departures on a timetable and arguments drawn from bounded sets.
\* ------------------------------------------------------------------------
ConnectionArgs ==
    [stop_id : {2},
     departure_at : { NewDateTime(d, create_time(10, 0) + 2 * slot) :
                          d \in {0, 1}, slot \in 0..(MaxArrivalSlots - 1) },
     previous_journey_id : {None, 1},
     journey_id : {2, 3}]

InitConnections ==
    /\ data_storage \in ConnectionStorages
    /\ args \in ConnectionArgs
    /\ pc = "ready"
    /\ ret = None
    /\ RoutingIdle
    /\ PlanIdle
    /\ IsochroneIdle

CallGetExchangeTime ==
    /\ pc = "ready"
    /\ args.previous_journey_id # None
    /\ ret' = get_exchange_time(args.stop_id, args.previous_journey_id,
                                args.journey_id, args.departure_at)
    /\ pc' = "get_exchange_time"
    /\ UNCHANGED <<data_storage, args, routing_vars, plan_vars, isochrone_vars>>

CallNextDepartures ==
    /\ pc = "ready"
    /\ args.journey_id = 2
    /\ ret' = next_departures(args.stop_id, args.departure_at, {},
                              args.previous_journey_id)
    /\ pc' = "next_departures"
    /\ UNCHANGED <<data_storage, args, routing_vars, plan_vars, isochrone_vars>>

NextConnections == CallGetExchangeTime \/ CallNextDepartures

SpecConnections == InitConnections /\ [][NextConnections]_vars

\* ------------------------------------------------------------------------
\* C3
\* ------------------------------------------------------------------------
\* a through-service record links the two journeys at the stop and its bit
\* field runs on the date
ThroughServiceOn(previous_journey_id, journey_id, stop_id, date) ==
    \E e \in data_storage.through_service :
        /\ e.journey_1 = <<JourneyOf(previous_journey_id).legacy_id,
                           JourneyOf(previous_journey_id).administration>>
        /\ e.journey_2 = <<JourneyOf(journey_id).legacy_id,
                           JourneyOf(journey_id).administration>>
        /\ e.stop_id = stop_id
        /\ e.bit_field_id \in data_storage.bit_fields_by_day[date]

\* C3: every journey next_departures returns for a traveller who reaches the
\* stop at departure_at on a previous journey either forms a through-service
\* with it valid on that date, or leaves at or after departure_at plus the
\* exchange time of get_exchange_time for the stop and the journey pair; with
\* no previous journey nothing is removed for lack of connection time.
C3_ConnectionTimeRespected ==
    pc = "next_departures" =>
        /\ \A i \in 1..Len(ret) :
              \/ args.previous_journey_id = None
              \/ ThroughServiceOn(args.previous_journey_id, ret[i][1], args.stop_id,
                                  DateOf(args.departure_at))
              \/ args.departure_at
                   + get_exchange_time(args.stop_id, args.previous_journey_id,
                                       ret[i][1], ret[i][2]) <= ret[i][2]
        /\ args.previous_journey_id = None =>
              ret = FirstOfEachRoute(DeparturesInWindow(args.stop_id, args.departure_at),
                                     {}, args.stop_id)

\* C3 witness: a call with a previous journey that returns one journey as a
\* through-service leaving before the exchange time has passed, returns another
\* after its exchange time, and drops a third one for lack of time.
C3_Witness ==
    /\ pc = "next_departures"
    /\ args.previous_journey_id # None
    /\ \E i \in 1..Len(ret) :
          /\ ThroughServiceOn(args.previous_journey_id, ret[i][1], args.stop_id,
                              DateOf(args.departure_at))
          /\ args.departure_at
               + get_exchange_time(args.stop_id, args.previous_journey_id,
                                   ret[i][1], ret[i][2]) > ret[i][2]
    /\ \E i \in 1..Len(ret) :
          ~ThroughServiceOn(args.previous_journey_id, ret[i][1], args.stop_id,
                            DateOf(args.departure_at))
    /\ Len(ret) < Len(FirstOfEachRoute(
                          DeparturesInWindow(args.stop_id, args.departure_at),
                          {}, args.stop_id))

\* ------------------------------------------------------------------------
\* C4
\* ------------------------------------------------------------------------
\* The five rules read off the tables: does rule r have an entry that applies
\* to the call (for the journey pair: one without bit field, or whose bit field
\* is set for the departure date), and the value it then gives.
RuleApplies(r) ==
    LET j1 == JourneyOf(args.previous_journey_id)
        j2 == JourneyOf(args.journey_id)
    IN  CASE r = 1 ->
               \E i \in 1..Len(data_storage.exchange_times_journey) :
                   LET e == data_storage.exchange_times_journey[i]
                   IN  /\ e.stop_id = args.stop_id
                       /\ e.journey_1 = <<j1.legacy_id, j1.administration>>
                       /\ e.journey_2 = <<j2.legacy_id, j2.administration>>
                       /\ JourneyPairEntryIsValid(e, args.departure_at)
          [] r = 2 ->
               \E e \in data_storage.exchange_times_administration :
                   /\ e.stop_id = args.stop_id
                   /\ e.administration_1 = j1.administration
                   /\ e.administration_2 = j2.administration
          [] r = 3 -> data_storage.stops[args.stop_id].exchange_time # NoExchangeTime
          [] r = 4 ->
               \E e \in data_storage.exchange_times_administration :
                   /\ e.stop_id = None
                   /\ e.administration_1 = j1.administration
                   /\ e.administration_2 = j2.administration
          [] OTHER -> TRUE

RuleValues(r) ==
    LET j1 == JourneyOf(args.previous_journey_id)
        j2 == JourneyOf(args.journey_id)
        both_ic == j1.designation = "IC" /\ j2.designation = "IC"
        of_pair(t) == IF both_ic THEN t[1] ELSE t[2]
    IN  CASE r = 1 ->
               LET ok == { i \in 1..Len(data_storage.exchange_times_journey) :
                             LET e == data_storage.exchange_times_journey[i]
                             IN  /\ e.stop_id = args.stop_id
                                 /\ e.journey_1 = <<j1.legacy_id, j1.administration>>
                                 /\ e.journey_2 = <<j2.legacy_id, j2.administration>>
                                 /\ JourneyPairEntryIsValid(e, args.departure_at) }
               IN  { data_storage.exchange_times_journey[i].duration :
                         i \in { q \in ok : \A m \in ok : q <= m } }
          [] r = 2 ->
               { e.duration : e \in { x \in data_storage.exchange_times_administration :
                                         /\ x.stop_id = args.stop_id
                                         /\ x.administration_1 = j1.administration
                                         /\ x.administration_2 = j2.administration } }
          [] r = 3 -> { of_pair(data_storage.stops[args.stop_id].exchange_time) }
          [] r = 4 ->
               { e.duration : e \in { x \in data_storage.exchange_times_administration :
                                         /\ x.stop_id = None
                                         /\ x.administration_1 = j1.administration
                                         /\ x.administration_2 = j2.administration } }
          [] OTHER -> { of_pair(data_storage.default_exchange_time) }

\* C4: get_exchange_time returns the value of the first rule that applies,
\* in the order journey pair at the stop, administration pair at the stop,
\* the stop's own exchange time, global administration pair, global default;
\* a later rule gives the result only when no earlier rule has an entry that
\* applies to the call.
C4_FirstApplicableRule ==
    pc = "get_exchange_time" =>
        \E r \in 1..5 :
            /\ RuleApplies(r)
            /\ \A q \in 1..(r - 1) : ~RuleApplies(q)
            /\ ret \in RuleValues(r)

\* C4 witness: the global administration pair decided the call, and the call
\* returned its value, while the journey pair has an entry at the stop that
\* does not run on the departure date.
C4_Witness ==
    /\ pc = "get_exchange_time"
    /\ ~RuleApplies(1) /\ ~RuleApplies(2) /\ ~RuleApplies(3) /\ RuleApplies(4)
    /\ ret \in RuleValues(4)
    /\ JourneyPairEntries(args.stop_id,
           JourneyOf(args.previous_journey_id).legacy_id,
           JourneyOf(args.previous_journey_id).administration,
           JourneyOf(args.journey_id).legacy_id,
           JourneyOf(args.journey_id).administration) # << >>

\* ------------------------------------------------------------------------
\* Timetables of the route searches
\* ------------------------------------------------------------------------
StopConnection(stop_id_1, stop_id_2, duration) ==
    [stop_id_1 |-> stop_id_1, stop_id_2 |-> stop_id_2, duration |-> duration]

\* A network of five stops, stop 3 not usable as an exchange point.  Journey 1
\* (1 -> 2 -> 4) and journey 2 (1 -> 3 -> 2 -> 4) reach stops 2 and 4 at the
\* same minutes; journeys 3 (2 -> 5) and 4 (2 -> 4 -> 3) connect at stop 2,
\* journey 4 reaching stop 4 a minute before the direct ones; journey 5 repeats
\* journey 1 in the afternoon of day 0; journey 6 leaves stop 2 at 07:00.
\* Walks: 1 <-> 2 in 9 minutes, 4 -> 5 in 4 minutes.
NetworkStorage ==
    MkStorage(
        << MkJourney(21, "A", "R", 1,
               <<Entry(1, None, 488), Entry(2, 500, 501), Entry(4, 510, None)>>),
           MkJourney(22, "A", "R", 1,
               <<Entry(1, None, 490), Entry(3, 495, 496), Entry(2, 500, 502),
                 Entry(4, 510, None)>>),
           MkJourney(23, "A", "R", 1,
               <<Entry(2, None, 503), Entry(5, 515, None)>>),
           MkJourney(24, "A", "R", 1,
               <<Entry(2, None, 504), Entry(4, 509, 510), Entry(3, 520, None)>>),
           MkJourney(25, "A", "R", 2,
               <<Entry(1, None, 780), Entry(2, 790, 791), Entry(4, 800, None)>>),
           MkJourney(26, "A", "R", 1,
               <<Entry(2, None, 420), Entry(5, 430, None)>>) >>,
        [s \in 1..5 |-> MkStop(s # 3, NoExchangeTime)],
        << StopConnection(1, 2, 9), StopConnection(2, 1, 9), StopConnection(4, 5, 4) >>,
        {}, << >>, {})

\* Journey 1 passes through its first stop twice (1 -> 2 -> 1 -> 3), stop 2 not
\* usable as an exchange point; journey 2 (2 -> 4) reaches its end at the
\* minute journey 1 is back at stop 1.  Walk: 2 -> 4 in 3 minutes.
LoopStorage ==
    MkStorage(
        << MkJourney(31, "A", "R", 1,
               <<Entry(1, None, 490), Entry(2, 495, 496), Entry(1, 500, 501),
                 Entry(3, 510, None)>>),
           MkJourney(32, "A", "R", 1,
               <<Entry(2, None, 494), Entry(4, 500, None)>>) >>,
        [s \in 1..4 |-> MkStop(s # 2, NoExchangeTime)],
        << StopConnection(2, 4, 3) >>,
        {}, << >>, {})

\* The loop of LoopStorage reached from stop 2, the walk 2 -> 1 taking 3
\* minutes; journey 2 (2 -> 5 -> 6) is at stop 5 and at stop 6 in the minute
\* journey 1 is back at stop 1.
SameMinuteStorage ==
    MkStorage(
        << MkJourney(41, "A", "R", 1,
               <<Entry(1, None, 490), Entry(2, 495, 496), Entry(1, 500, 501),
                 Entry(3, 510, None)>>),
           MkJourney(42, "A", "R", 1,
               <<Entry(2, None, 497), Entry(5, 500, 500), Entry(6, 500, None)>>) >>,
        [s \in 1..6 |-> MkStop(s # 2, NoExchangeTime)],
        << StopConnection(2, 1, 3) >>,
        {}, << >>, {})

RoutingStorages == {NetworkStorage, LoopStorage, SameMinuteStorage}

\* ------------------------------------------------------------------------
\* Bounds of the route searches
\* ------------------------------------------------------------------------
\* largest max_num_explorable_connections tried
MaxConnections == 3

\* number of departure instants tried, from 08:00 on
MaxDepartureSlots == 3

\* number of time limits tried in one-to-many mode
MaxLimitSlots == 3

\* cap of the insertion counter of a RouteQueue
MaxSeq == 16

\* ------------------------------------------------------------------------
\* Specification of compute_routing: one call on a timetable and arguments
\* drawn from bounded sets; the arrival stop differs from the departure stop.
\* ------------------------------------------------------------------------
DepartureInstants ==
    { NewDateTime(d, create_time(8, 0) + (9 * slot) \div 2) :
          d \in {0, 1}, slot \in 0..(MaxDepartureSlots - 1) }

RoutingArgs(network) ==
    LET stops == DOMAIN network.stops
    IN  { [departure_stop_id |-> x[1], departure_at |-> t,
           max_num_explorable_connections |-> m,
           mode |-> "SolveFromDepartureStopToArrivalStop",
           arrival_stop_id |-> x[2], time_limit |-> None] :
              x \in { y \in {1, 2} \X stops : y[1] # y[2] },
              t \in DepartureInstants, m \in 1..MaxConnections }
        \cup
        { [departure_stop_id |-> s, departure_at |-> t,
           max_num_explorable_connections |-> m,
           mode |-> "SolveFromDepartureStopToReachableArrivalStops",
           arrival_stop_id |-> None, time_limit |-> t + 15 + 10 * slot] :
              s \in {1, 2}, t \in DepartureInstants, m \in 1..MaxConnections,
              slot \in 0..(MaxLimitSlots - 1) }

InitRouting ==
    /\ data_storage \in RoutingStorages
    /\ args \in RoutingArgs(data_storage)
    /\ pc = "compute_routing"
    /\ ret = None
    /\ RoutingIdle
    /\ PlanIdle
    /\ IsochroneIdle

\* compute_routing up to its loop: the initial routes and the empty maps
StartRouting ==
    /\ pc = "compute_routing"
    /\ routes' = create_initial_routes(args.departure_stop_id, args.departure_at)
    /\ journeys_to_ignore' =
           { last_section(routes'[j]).journey_id : j \in 1..Len(routes') } \ {None}
    /\ earliest_arrival_by_stop_id' = [s \in StopIds |-> None]
    /\ solutions' = [s \in StopIds |-> NoRoute]
    /\ round' = 0
    /\ pc' = "for"
    /\ UNCHANGED <<data_storage, args, ret, queue, seq, new_routes, visited_routes,
                   current_route, evaluated, plan_vars, isochrone_vars>>

\* one more round: explore_routes turns the routes into its queue
BeginRound ==
    /\ pc = "for"
    /\ round < args.max_num_explorable_connections
    /\ queue' = PushAll({}, 0, routes)
    /\ seq' = Len(routes)
    /\ new_routes' = << >>
    /\ visited_routes' = {}
    /\ pc' = "explore_routes"
    /\ UNCHANGED <<data_storage, args, ret, routes, solutions,
                   earliest_arrival_by_stop_id, journeys_to_ignore, round,
                   current_route, evaluated, plan_vars, isochrone_vars>>

\* the loop has run max_num_explorable_connections times
RoundsExhausted ==
    /\ pc = "for"
    /\ round >= args.max_num_explorable_connections
    /\ pc' = "returned"
    /\ UNCHANGED <<data_storage, args, ret, routing_vars, plan_vars, isochrone_vars>>

\* What every iteration of explore_routes starts with: the pop of `top` and
\* the call of can_continue_exploration, which records the solutions.
PopRoute(top, outcome) ==
    /\ current_route' = top.route
    /\ solutions' = outcome.solutions
    /\ evaluated' = evaluated \cup outcome.evaluated
    /\ UNCHANGED <<data_storage, args, ret, pc, routes, journeys_to_ignore, round,
                   plan_vars, isochrone_vars>>

\* iteration: the route is not to be explored further
StopExploring ==
    /\ pc = "explore_routes"
    /\ queue # {}
    /\ \E top \in {HeapTop(queue)} :
       \E outcome \in {can_continue_exploration(top.route, solutions)} :
          /\ PopRoute(top, outcome)
          /\ ~outcome.continue
          /\ queue' = queue \ {top}
    /\ UNCHANGED <<seq, new_routes, visited_routes, earliest_arrival_by_stop_id>>

\* iteration: the last section starts and ends at the same stop
SkipLoopingSection ==
    /\ pc = "explore_routes"
    /\ queue # {}
    /\ \E top \in {HeapTop(queue)} :
       \E outcome \in {can_continue_exploration(top.route, solutions)} :
          /\ PopRoute(top, outcome)
          /\ outcome.continue
          /\ last_section(top.route).departure_stop_id =
                 last_section(top.route).arrival_stop_id
          /\ queue' = queue \ {top}
    /\ UNCHANGED <<seq, new_routes, visited_routes, earliest_arrival_by_stop_id>>

\* iteration: no connection to explore at the arrival stop, the route seen for
\* the first time
RememberRoute ==
    /\ pc = "explore_routes"
    /\ queue # {}
    /\ \E top \in {HeapTop(queue)} :
       \E outcome \in {can_continue_exploration(top.route, solutions)} :
       \E further \in {explore_last_route_section_more_if_possible(top.route)} :
          /\ PopRoute(top, outcome)
          /\ outcome.continue
          /\ last_section(top.route).departure_stop_id #
                 last_section(top.route).arrival_stop_id
          /\ seq + Len(further) <= MaxSeq
          /\ ~can_explore_connections(top.route, earliest_arrival_by_stop_id)
          /\ ~RouteStayedTheSame(top.route, visited_routes)
          /\ queue' = PushAll(queue \ {top}, seq, further)
          /\ seq' = seq + Len(further)
          /\ visited_routes' = visited_routes \cup {top.route}
    /\ UNCHANGED <<new_routes, earliest_arrival_by_stop_id>>

\* iteration: no connection to explore, the route seen before: it is forgotten
\* and the top of the queue dropped
DropRepeatedRoute ==
    /\ pc = "explore_routes"
    /\ queue # {}
    /\ \E top \in {HeapTop(queue)} :
       \E outcome \in {can_continue_exploration(top.route, solutions)} :
       \E further \in {explore_last_route_section_more_if_possible(top.route)} :
          /\ PopRoute(top, outcome)
          /\ outcome.continue
          /\ last_section(top.route).departure_stop_id #
                 last_section(top.route).arrival_stop_id
          /\ seq + Len(further) <= MaxSeq
          /\ ~can_explore_connections(top.route, earliest_arrival_by_stop_id)
          /\ RouteStayedTheSame(top.route, visited_routes)
          /\ \E pushed \in {PushAll(queue \ {top}, seq, further)} :
                queue' = IF pushed = {} THEN {} ELSE pushed \ {HeapTop(pushed)}
          /\ seq' = seq + Len(further)
          /\ visited_routes' = visited_routes \ {top.route}
    /\ UNCHANGED <<new_routes, earliest_arrival_by_stop_id>>

\* iteration: the arrival stop is reached earlier than before: its nearby
\* stops and its connections are explored
ExploreConnections ==
    /\ pc = "explore_routes"
    /\ queue # {}
    /\ \E top \in {HeapTop(queue)} :
       \E outcome \in {can_continue_exploration(top.route, solutions)} :
       \E further \in {explore_last_route_section_more_if_possible(top.route)} :
       \E nearby \in {explore_nearby_stops(top.route)} :
          /\ PopRoute(top, outcome)
          /\ outcome.continue
          /\ last_section(top.route).departure_stop_id #
                 last_section(top.route).arrival_stop_id
          /\ seq + Len(further) + Len(nearby) <= MaxSeq
          /\ can_explore_connections(top.route, earliest_arrival_by_stop_id)
          /\ earliest_arrival_by_stop_id' =
                 [earliest_arrival_by_stop_id EXCEPT
                     ![arrival_stop_id(top.route)] = arrival_at(top.route)]
          /\ queue' = PushAll(queue \ {top}, seq, further \o nearby)
          /\ seq' = seq + Len(further) + Len(nearby)
          /\ new_routes' = new_routes \o get_connections(top.route, journeys_to_ignore)
    /\ UNCHANGED visited_routes

\* the queue is empty: explore_routes returns the new routes sorted, and
\* compute_routing leaves its loop if there is none
EndRound ==
    /\ pc = "explore_routes"
    /\ queue = {}
    /\ journeys_to_ignore' = journeys_to_ignore \cup
           ({ last_section(new_routes[j]).journey_id : j \in 1..Len(new_routes) } \ {None})
    /\ IF new_routes = << >>
       THEN /\ pc' = "returned"
            /\ UNCHANGED <<routes, round>>
       ELSE /\ routes' = sort_routes(new_routes)
            /\ round' = round + 1
            /\ pc' = "for"
    /\ UNCHANGED <<data_storage, args, ret, solutions, earliest_arrival_by_stop_id,
                   queue, seq, new_routes, visited_routes, current_route, evaluated,
                   plan_vars, isochrone_vars>>

NextRouting ==
    \/ StartRouting
    \/ BeginRound
    \/ RoundsExhausted
    \/ StopExploring
    \/ SkipLoopingSection
    \/ RememberRoute
    \/ DropRepeatedRoute
    \/ ExploreConnections
    \/ EndRound

\* every step of compute_routing is taken by the one thread that runs it
SpecRouting == InitRouting /\ [][NextRouting]_vars /\ WF_vars(NextRouting)

\* ------------------------------------------------------------------------
\* C1
\* ------------------------------------------------------------------------
OneToMany == args.mode = "SolveFromDepartureStopToReachableArrivalStops"

\* C1: in one-to-many mode, at every point of compute_routing and at its
\* return, every route stored in the solutions map arrives no later than the
\* time limit, whether it ends at the last stop of a section or at an
\* intermediate stop of its last journey.
C1_SolutionsWithinTimeLimit ==
    OneToMany =>
        \A s \in DOMAIN solutions :
            solutions[s] # NoRoute => arrival_at(solutions[s]) <= args.time_limit

\* a popped route arrives after the time limit at the end of its last section
\* while an intermediate stop of that section, reached in time, is recorded
C1_Witness ==
    /\ OneToMany
    /\ current_route # NoRoute
    /\ last_section(current_route).journey_id # None
    /\ arrival_at(current_route) > args.time_limit
    /\ \E s \in DOMAIN solutions :
          /\ s # arrival_stop_id(current_route)
          /\ solutions[s] = update_arrival_stop(current_route, s)
          /\ arrival_at(solutions[s]) <= args.time_limit

\* ------------------------------------------------------------------------
\* C2
\* ------------------------------------------------------------------------
\* the order of the claim: a is strictly better than b
C2_Better(a, b) ==
    LET vehicle_a == SelectSeq(a.sections, LAMBDA x : x.journey_id # None)
        vehicle_b == SelectSeq(b.sections, LAMBDA x : x.journey_id # None)
        differing == { j \in 1..Len(vehicle_a) :
                         SectionStops(vehicle_a[j]) # SectionStops(vehicle_b[j]) }
    IN  \/ arrival_at(a) < arrival_at(b)
        \/ /\ arrival_at(a) = arrival_at(b)
           /\ Len(vehicle_a) < Len(vehicle_b)
        \/ /\ arrival_at(a) = arrival_at(b)
           /\ Len(vehicle_a) = Len(vehicle_b)
           /\ differing # {}
           /\ LET d == CHOOSE j \in differing : \A m \in differing : j <= m
              IN  SectionStops(vehicle_a[d]) > SectionStops(vehicle_b[d])

C2_LoneWalk(c) == Len(c.sections) = 1 /\ c.sections[1].journey_id = None

\* the stored route of stop s is the best of the candidates of `pool`
C2_KeepsBestOf(pool, s) ==
    IF pool = {}
    THEN solutions[s] = NoRoute
    ELSE /\ solutions[s] \in pool
         /\ \A c \in pool : ~C2_Better(c, solutions[s])

C2_Evaluated(s) == { c \in evaluated : arrival_stop_id(c) = s }

\* C2 (as stated): the route kept for a stop is the best, under the order, of
\* all the candidates evaluated for it.
C2_KeptIsBestOfAllCandidates ==
    \A s \in DOMAIN solutions : C2_KeepsBestOf(C2_Evaluated(s), s)

\* C2 (amended): the route kept for a stop is the best, under the order, of
\* the candidates evaluated for it that are not a lone walking section, and a
\* stored route is replaced only by a strictly better one.
C2_KeptIsBestVehicleCandidate ==
    /\ [](\A s \in DOMAIN solutions :
             C2_KeepsBestOf({ c \in C2_Evaluated(s) : ~C2_LoneWalk(c) }, s))
    /\ [][pc = "explore_routes" =>
             \A s \in DOMAIN solutions :
                 solutions'[s] # solutions[s] =>
                     \/ solutions[s] = NoRoute
                     \/ C2_Better(solutions'[s], solutions[s])]_vars

\* a stop for which two candidates tie on arrival and on vehicle sections, the
\* one kept covering more stops
C2_Witness ==
    \E s \in DOMAIN solutions : \E c \in C2_Evaluated(s) :
        /\ solutions[s] # NoRoute
        /\ c # solutions[s]
        /\ ~C2_LoneWalk(c)
        /\ arrival_at(c) = arrival_at(solutions[s])
        /\ count_connections(c) = count_connections(solutions[s])
        /\ C2_Better(solutions[s], c)

PlusMinutes(time, minutes) == (time + minutes) % MinutesPerDay

\* the groups of trips that get_routes collects under one hash_route() key
TripGroups ==
    { { id \in JourneyIds : RouteStopIds(JourneyOf(id)) = h } :
        h \in { RouteStopIds(JourneyOf(id)) : id \in JourneyIds } }

\* the orders in which the hash map may hand out the groups
GroupOrders ==
    { order \in [1..Cardinality(TripGroups) -> TripGroups] :
        \A i, j \in 1..Cardinality(TripGroups) : order[i] = order[j] => i = j }

\* trips.sort_by(first departure), the trips of data_storage being met by
\* ascending id
SortedTrips(group) ==
    LET ids == SelectSeq(IdSeq(Len(data_storage.journeys)), LAMBDA id : id \in group)
    IN  SortByKey([i \in 1..Len(ids) |->
                      <<JourneyOf(ids[i]).route[1].departure_time, ids[i]>>])

RECURSIVE StopTimesOf(_)
StopTimesOf(trips) ==
    IF trips = << >> THEN << >>
    ELSE [i \in 1..Len(JourneyOf(Head(trips)).route) |->
             [arrival_time |-> JourneyOf(Head(trips)).route[i].arrival_time,
              departure_time |-> JourneyOf(Head(trips)).route[i].departure_time]]
         \o StopTimesOf(Tail(trips))

RrRoute(stop_time_first_index, stop_time_count, stop_first_index, stop_count) ==
    [stop_time_first_index |-> stop_time_first_index, stop_time_count |-> stop_time_count,
     stop_first_index |-> stop_first_index, stop_count |-> stop_count]

\* one turn of the loop over the groups: the trips of the group are appended
\* as one route
AppendRoute(view, group) ==
    LET trips == SortedTrips(group)
        times == StopTimesOf(trips)
        stop_ids == RouteStopIds(JourneyOf(trips[1]))
    IN  [routes |-> Append(view.routes,
                           RrRoute(Len(view.stop_times), Len(times),
                                   Len(view.route_stops), Len(stop_ids))),
         stop_times |-> view.stop_times \o times,
         route_stops |-> view.route_stops \o stop_ids]

RECURSIVE get_routes(_)
get_routes(order) ==
    IF order = << >>
    THEN [routes |-> << >>, stop_times |-> << >>, route_stops |-> << >>]
    ELSE AppendRoute(get_routes(SubSeq(order, 1, Len(order) - 1)), order[Len(order)])

\* the stops that lie on a route: the stops vector of get_stops
PlanStops ==
    UNION { { JourneyOf(id).route[i].stop_id : i \in 1..Len(JourneyOf(id).route) } :
              id \in JourneyIds }

\* transfers of a stop: its stop connections whose other stop is in the vector
get_stops_transfers(stop_index) ==
    SelectSeq(get_stop_connections(stop_index),
              LAMBDA stop_connection : stop_connection.stop_id_2 \in PlanStops)

StopTime(i) == storage.stop_times[i + 1]

RouteStop(rr, local) == storage.route_stops[rr.stop_first_index + local + 1]

\* routes through a stop, as stop_routes lists them
StopRoutes(stop_index) ==
    { r \in 1..Len(storage.routes) :
        \E i \in 0..(storage.routes[r].stop_count - 1) :
            RouteStop(storage.routes[r], i) = stop_index }

\* first position of the stop on the route
local_stop_index(rr, stop_index) ==
    CHOOSE i \in 0..(rr.stop_count - 1) :
        /\ RouteStop(rr, i) = stop_index
        /\ \A j \in 0..(i - 1) : RouteStop(rr, j) # stop_index

\* the map k_routes the marked stops yield: per route the smallest position
collect_routes(marked) ==
    { <<r, CHOOSE i \in { local_stop_index(storage.routes[r], m) :
                            m \in { x \in marked : r \in StopRoutes(x) } } :
               \A m \in { x \in marked : r \in StopRoutes(x) } :
                   i <= local_stop_index(storage.routes[r], m)>> :
        r \in { q \in 1..Len(storage.routes) : \E m \in marked : q \in StopRoutes(m) } }

\* ------------------------------------------------------------------------
\* src/src/routing.rs: the scan of one stop position in plan_journey.  A scan
\* state holds what the loop body reads and writes: the labels and the path
\* of the round, earliest_arrival_times, marked_stops, the held trip, and
\* whether the loop goes on ("scan"), has left the route ("break") or the
\* thread has panicked ("panic").
\* ------------------------------------------------------------------------
NoLabels == [stop \in PlanStops |-> None]

NoPath == [stop \in PlanStops |-> NoPredecessor]

ScanState(labels_k, earliest, marked, path_k, trip, boarded) ==
    [labels_k |-> labels_k, earliest |-> earliest, marked |-> marked, path_k |-> path_k,
     trip |-> trip, boarded |-> boarded, status |-> "scan"]

\* the match on (earliest at the stop, earliest at the arrival stop)
can_label_be_improved_IgnoringArrivalStop(arrival_time_at_stop_i, arrival_time_1, arrival_time_2) ==
    arrival_time_1 = None \/ arrival_time_at_stop_i < arrival_time_1

can_label_be_improved_IgnoringStop(arrival_time_at_stop_i, arrival_time_1, arrival_time_2) ==
    arrival_time_2 = None \/ arrival_time_at_stop_i < arrival_time_2

can_label_be_improved(arrival_time_at_stop_i, arrival_time_1, arrival_time_2) ==
    CASE arrival_time_1 = None /\ arrival_time_2 = None -> TRUE
      [] arrival_time_1 # None /\ arrival_time_2 = None ->
             arrival_time_at_stop_i < arrival_time_1
      [] arrival_time_1 = None /\ arrival_time_2 # None ->
             arrival_time_at_stop_i < arrival_time_2
      [] OTHER -> arrival_time_at_stop_i < Min2(arrival_time_1, arrival_time_2)

\* the match on (label of round k - 1 at the stop, held trip)
can_catch_earlier_trip(previous_arrival_time_at_stop_i, trip, local) ==
    CASE previous_arrival_time_at_stop_i # None /\ trip # None ->
             /\ StopTime(trip + local).departure_time # None
             /\ previous_arrival_time_at_stop_i <= StopTime(trip + local).departure_time
      [] previous_arrival_time_at_stop_i # None /\ trip = None -> TRUE
      [] OTHER -> FALSE

\* the while loop that walks the trips of the route backwards from entry i;
\* i below 0 is the usize that `i -= route.stop_count()` cannot hold: the
\* subtraction panics, or wraps and the index into stop_times panics
RECURSIVE catch_backward(_, _, _, _, _)
catch_backward(i, rr, local, previous_arrival_time_at_stop_i, held) ==
    IF i < 0 THEN [held EXCEPT !.status = "panic"]
    ELSE IF ~(i >= rr.stop_time_first_index) THEN held
    ELSE IF StopTime(i).departure_time = None
         THEN catch_backward(i - rr.stop_count, rr, local,
                             previous_arrival_time_at_stop_i, held)
    ELSE IF StopTime(i).departure_time > previous_arrival_time_at_stop_i
         THEN catch_backward(i - rr.stop_count, rr, local,
                             previous_arrival_time_at_stop_i,
                             [held EXCEPT !.trip = i - local,
                                          !.boarded = RouteStop(rr, local)])
    ELSE held

\* the while loop that looks for the first trip of the route to board
catch_forward(rr, local, previous_arrival_time_at_stop_i, held) ==
    LET catchable ==
            { i \in { local + n * rr.stop_count : n \in 0..rr.stop_time_count } :
                /\ i < rr.stop_time_count
                /\ StopTime(rr.stop_time_first_index + i).departure_time # None
                /\ StopTime(rr.stop_time_first_index + i).departure_time
                       >= previous_arrival_time_at_stop_i }
    IN  IF catchable = {} THEN held
        ELSE [held EXCEPT
                 !.trip = rr.stop_time_first_index
                              + (CHOOSE i \in catchable : \A j \in catchable : i <= j)
                              - local,
                 !.boarded = RouteStop(rr, local)]

\* the part of the loop body under `if let Some(current_trip_index)`
improve_label(st, rr, local) ==
    LET stop_i_index == RouteStop(rr, local)
        arrival_time_at_stop_i == StopTime(st.trip + local).arrival_time
    IN  IF st.trip = None THEN st
        ELSE IF arrival_time_at_stop_i = None THEN [st EXCEPT !.status = "panic"]
        ELSE IF arrival_time_at_stop_i < TimeOf(args.departure_at)
             THEN [st EXCEPT !.status = "break"]
        ELSE IF can_label_be_improved(arrival_time_at_stop_i,
                                      st.earliest[stop_i_index],
                                      st.earliest[args.arrival_stop_id])
             THEN [st EXCEPT !.labels_k[stop_i_index] = arrival_time_at_stop_i,
                             !.earliest[stop_i_index] = arrival_time_at_stop_i,
                             !.marked = @ \cup {stop_i_index},
                             !.path_k[stop_i_index] = <<st.trip, st.boarded>>]
        ELSE st

\* the part of the loop body from `let previous_arrival_time_at_stop_i` on
catch_trip(st, rr, local) ==
    LET previous_arrival_time_at_stop_i == labels[k][RouteStop(rr, local)]
    IN  IF ~can_catch_earlier_trip(previous_arrival_time_at_stop_i, st.trip, local)
        THEN st
        ELSE IF st.trip # None
             THEN catch_backward(st.trip + local - rr.stop_count, rr, local,
                                 previous_arrival_time_at_stop_i, st)
        ELSE catch_forward(rr, local, previous_arrival_time_at_stop_i, st)

\* the body of `for stop_i_local_index in stop_local_index..route.stop_count()`
scan_stop(st, rr, local) ==
    LET improved == improve_label(st, rr, local)
    IN  IF improved.status # "scan" THEN improved ELSE catch_trip(improved, rr, local)

\* the scan of a whole route from position local on
RECURSIVE scan_route(_, _, _)
scan_route(st, rr, local) ==
    IF local >= rr.stop_count \/ st.status # "scan" THEN st
    ELSE scan_route(scan_stop(st, rr, local), rr, local + 1)

\* one turn of the loop over the transfers of a marked stop
relax_transfer(relaxed, stop_index, transfer) ==
    LET arrival_time_1 == relaxed.labels_k[transfer.stop_id_2]
        arrival_time_2 == PlusMinutes(relaxed.labels_k[stop_index], transfer.duration)
        value == IF arrival_time_1 # None THEN Min2(arrival_time_1, arrival_time_2)
                 ELSE arrival_time_2
    IN  IF value < TimeOf(args.departure_at) THEN relaxed
        ELSE [labels_k |-> [relaxed.labels_k EXCEPT ![transfer.stop_id_2] = value],
              additional_marked_stops |->
                  relaxed.additional_marked_stops \cup {transfer.stop_id_2}]

RECURSIVE relax_transfers(_, _, _)
relax_transfers(relaxed, stop_index, transfers) ==
    IF transfers = << >> THEN relaxed
    ELSE relax_transfers(relax_transfer(relaxed, stop_index, Head(transfers)),
                         stop_index, Tail(transfers))

\* the loop over the marked stops, met in the order the hash set yields
RECURSIVE relax_stops(_, _)
relax_stops(relaxed, order) ==
    IF order = << >> THEN relaxed
    ELSE relax_stops(relax_transfers(relaxed, Head(order),
                                     get_stops_transfers(Head(order))),
                     Tail(order))

StopOrders(marked) ==
    { order \in [1..Cardinality(marked) -> marked] :
        \A i, j \in 1..Cardinality(marked) : order[i] = order[j] => i = j }

\* ------------------------------------------------------------------------
\* Timetables for plan_journey
\* ------------------------------------------------------------------------
MaxPlanSlots == 3

MaxJunctionSlots == 2

\* Stop 1 is left for stop 4 (arrival 10:14) and for stop 2 (arrival 10:05 or
\* 10:11); two trips of one route run 4 -> 2 -> 3, the first leaving stop 2 at
\* 10:11, the second leaving stop 4 at 10:15.  Stop 4 is 2 minutes on foot
\* from stop 2; stop 5 lies on no route.
PlanNetwork(junction_arrival) ==
    MkStorage(
        << MkJourney(41, "A", "R", 1, <<Entry(1, None, 601), Entry(4, 614, None)>>),
           MkJourney(42, "A", "R", 1,
               <<Entry(1, None, 602), Entry(2, junction_arrival, None)>>),
           MkJourney(43, "A", "R", 1,
               <<Entry(4, None, 600), Entry(2, 610, 611), Entry(3, 620, None)>>),
           MkJourney(44, "A", "R", 1,
               <<Entry(4, None, 615), Entry(2, 625, 626), Entry(3, 635, None)>>) >>,
        [s \in 1..5 |-> MkStop(TRUE, NoExchangeTime)],
        << StopConnection(2, 4, 2), StopConnection(3, 5, 4) >>,
        {}, << >>, {})

\* A trip leaves stop 1 at 23:54 and reaches stop 2 at 00:04 and stop 3 at
\* 00:15; another reaches stop 3 from stop 1 at 23:58, 5 minutes on foot from
\* stop 2.
MidnightNetwork ==
    MkStorage(
        << MkJourney(51, "A", "R", 1,
               <<Entry(1, None, 1434), Entry(2, 4, 5), Entry(3, 15, None)>>),
           MkJourney(52, "A", "R", 1, <<Entry(1, None, 1433), Entry(3, 1438, None)>>) >>,
        [s \in 1..3 |-> MkStop(TRUE, NoExchangeTime)],
        << StopConnection(3, 2, 5) >>,
        {}, << >>, {})

\* Two trips with the stop sequence 1 -> 2 -> 3; the one that leaves stop 1
\* later overtakes the other before stop 2.
OvertakingNetwork ==
    MkStorage(
        << MkJourney(61, "A", "R", 1,
               <<Entry(1, None, 600), Entry(2, 630, 631), Entry(3, 650, None)>>),
           MkJourney(62, "A", "R", 1,
               <<Entry(1, None, 605), Entry(2, 615, 616), Entry(3, 625, None)>>),
           MkJourney(63, "A", "R", 1, <<Entry(1, None, 601), Entry(2, 612, None)>>) >>,
        [s \in 1..3 |-> MkStop(TRUE, NoExchangeTime)],
        << >>,
        {}, << >>, {})

\* the timetables, each with the first departure time asked for
PlanNetworks ==
    { <<PlanNetwork(create_time(10, 5) + 6 * slot), create_time(9, 58)>> :
        slot \in 0..(MaxJunctionSlots - 1) }
    \cup { <<MidnightNetwork, create_time(23, 48)>>,
           <<OvertakingNetwork, create_time(9, 58)>> }

PlanArgs(first_departure) ==
    { [departure_stop_id |-> x[1], arrival_stop_id |-> x[2],
       departure_at |-> NewDateTime(0, first_departure + 2 * slot)] :
          x \in { y \in {1, 4} \X {2, 3, 4} : y[1] # y[2] }, slot \in 0..(MaxPlanSlots - 1) }

InitPlan ==
    /\ \E network \in PlanNetworks :
           /\ data_storage = network[1]
           /\ args \in PlanArgs(network[2])
    /\ args.departure_stop_id \in PlanStops
    /\ args.arrival_stop_id \in PlanStops
    /\ pc = "plan_journey"
    /\ ret = None
    /\ RoutingIdle
    /\ PlanIdle
    /\ IsochroneIdle

\* ------------------------------------------------------------------------
\* src/src/routing.rs: plan_journey
\* ------------------------------------------------------------------------

\* routing.rs 24-48: the timetable view and the state before the first round
BuildTimetable ==
    /\ pc = "plan_journey"
    /\ \E order \in GroupOrders :
           storage' = get_routes(order)
    /\ labels' = << [NoLabels EXCEPT ![args.departure_stop_id] = TimeOf(args.departure_at)] >>
    /\ earliest_arrival_times' = NoLabels
    /\ marked_stops' = {args.departure_stop_id}
    /\ path' = << NoPath >>
    /\ k' = 1
    /\ pc' = "round"
    /\ UNCHANGED <<data_storage, args, ret, routing_vars, isochrone_vars, k_routes, scanned,
                   stop_i_local_index, current_trip_index, current_trip_boarded_at,
                   round_start>>

\* routing.rs 50-82: a round begins, the routes through the marked stops are
\* collected
CollectRoutes ==
    /\ pc = "round"
    /\ labels' = Append(labels, NoLabels)
    /\ path' = Append(path, NoPath)
    /\ k_routes' = collect_routes(marked_stops)
    /\ marked_stops' = {}
    /\ round_start' = [earliest_arrival_times |-> earliest_arrival_times,
                       k_routes |-> collect_routes(marked_stops)]
    /\ pc' = "scan"
    /\ UNCHANGED <<data_storage, args, ret, routing_vars, isochrone_vars, storage,
                   earliest_arrival_times, k, scanned, stop_i_local_index,
                   current_trip_index, current_trip_boarded_at>>

\* routing.rs 84-86: the loop over k_routes takes the next route, in the order
\* of the hash map
PickRoute ==
    /\ pc = "scan"
    /\ scanned = None
    /\ \E next \in k_routes :
           /\ scanned' = next[1]
           /\ stop_i_local_index' = next[2]
           /\ k_routes' = k_routes \ {next}
    /\ current_trip_index' = None
    /\ current_trip_boarded_at' = 0
    /\ UNCHANGED <<data_storage, args, ret, pc, routing_vars, isochrone_vars, storage, labels,
                   earliest_arrival_times, marked_stops, path, k, round_start>>

\* routing.rs 88-181: the loop body at one stop position of the scanned route
ScanStop ==
    /\ pc = "scan"
    /\ scanned # None
    /\ \E st \in { scan_stop(ScanState(labels[k + 1], earliest_arrival_times,
                                       marked_stops, path[k], current_trip_index,
                                       current_trip_boarded_at),
                             storage.routes[scanned], stop_i_local_index) } :
           /\ labels' = [labels EXCEPT ![k + 1] = st.labels_k]
           /\ earliest_arrival_times' = st.earliest
           /\ marked_stops' = st.marked
           /\ path' = [path EXCEPT ![k] = st.path_k]
           /\ current_trip_index' = st.trip
           /\ current_trip_boarded_at' = st.boarded
           /\ pc' = IF st.status = "panic" THEN "panic" ELSE "scan"
           /\ IF /\ st.status = "scan"
                 /\ stop_i_local_index + 1 < storage.routes[scanned].stop_count
              THEN /\ stop_i_local_index' = stop_i_local_index + 1
                   /\ scanned' = scanned
              ELSE /\ stop_i_local_index' = stop_i_local_index
                   /\ scanned' = None
    /\ UNCHANGED <<data_storage, args, ret, routing_vars, isochrone_vars, storage, k, k_routes,
                   round_start>>

\* routing.rs 185-247: the transfers of the marked stops are relaxed; the
\* loop is left when no stop is marked, and plan_journey returns None
RelaxTransfers ==
    /\ pc = "scan"
    /\ scanned = None
    /\ k_routes = {}
    /\ \E order \in StopOrders(marked_stops) :
       \E relaxed \in { relax_stops([labels_k |-> labels[k + 1],
                                     additional_marked_stops |-> {}], order) } :
           /\ labels' = [labels EXCEPT ![k + 1] = relaxed.labels_k]
           /\ marked_stops' = marked_stops \cup relaxed.additional_marked_stops
    /\ IF marked_stops' = {}
       THEN k' = k /\ pc' = "done"
       ELSE k' = k + 1 /\ pc' = "round"
    /\ UNCHANGED <<data_storage, args, ret, routing_vars, isochrone_vars, storage,
                   earliest_arrival_times, path, k_routes, scanned, stop_i_local_index,
                   current_trip_index, current_trip_boarded_at, round_start>>

NextPlan ==
    \/ BuildTimetable
    \/ CollectRoutes
    \/ PickRoute
    \/ ScanStop
    \/ RelaxTransfers

SpecPlan == InitPlan /\ [][NextPlan]_vars

\* ------------------------------------------------------------------------
\* Claims about plan_journey
\* ------------------------------------------------------------------------

\* a step of the route scan: the loop body at one stop position
ScanStep == pc = "scan" /\ scanned # None

ScannedStop == RouteStop(storage.routes[scanned], stop_i_local_index)

HeldArrival == StopTime(current_trip_index + stop_i_local_index).arrival_time

\* C6: in the route scan a stop's label is written only when the arrival of
\* the held trip is strictly earlier than both the stop's earliest arrival
\* and the earliest arrival at the target stop; earliest_arrival_times[s]
\* never increases for any stop s; every write marks the stop and records
\* (held trip, boarding stop) as its predecessor.
C6_LabelWrittenOnlyWhenStrictlyEarlier ==
    /\ [][ScanStep =>
            \A s \in PlanStops :
                (\/ labels'[k + 1][s] # labels[k + 1][s]
                 \/ earliest_arrival_times'[s] # earliest_arrival_times[s]) =>
                    /\ current_trip_index # None
                    /\ s = ScannedStop
                    /\ labels'[k + 1][s] = HeldArrival
                    /\ \/ earliest_arrival_times[s] = None
                       \/ HeldArrival < earliest_arrival_times[s]
                    /\ \/ earliest_arrival_times[args.arrival_stop_id] = None
                       \/ HeldArrival < earliest_arrival_times[args.arrival_stop_id]
                    /\ earliest_arrival_times'[s] = HeldArrival
                    /\ s \in marked_stops'
                    /\ path'[k][s] = <<current_trip_index, current_trip_boarded_at>>]_vars
    /\ [][\A s \in DOMAIN earliest_arrival_times :
            earliest_arrival_times[s] # None =>
                /\ earliest_arrival_times'[s] # None
                /\ earliest_arrival_times'[s] <= earliest_arrival_times[s]]_vars

\* the scan of the last route of a round has written the label of a stop
\* other than the target, the target having been reached by another trip
C6_Witness ==
    /\ pc = "scan"
    /\ k_routes = {}
    /\ current_trip_index # None
    /\ earliest_arrival_times[args.arrival_stop_id] # None
    /\ path[k][args.arrival_stop_id] # NoPredecessor
    /\ path[k][args.arrival_stop_id][1] # current_trip_index
    /\ \E s \in PlanStops \ {args.arrival_stop_id} :
           /\ labels[k + 1][s] # None
           /\ labels[k + 1][s] < earliest_arrival_times[args.arrival_stop_id]
           /\ earliest_arrival_times[s] = labels[k + 1][s]
           /\ s \in marked_stops
           /\ path[k][s] = <<current_trip_index, current_trip_boarded_at>>

\* departure of trip number n (from 0) of the route at position local
TripDeparture(rr, n, local) ==
    StopTime(rr.stop_time_first_index + n * rr.stop_count + local).departure_time

TripCount(rr) == rr.stop_time_count \div rr.stop_count

\* dep(trip_i, p) <= dep(trip_{i+1}, p) at every stop position p of the route
RouteIsFifo(rr) ==
    \A n \in 0..(TripCount(rr) - 2) : \A local \in 0..(rr.stop_count - 1) :
        (TripDeparture(rr, n, local) # None /\ TripDeparture(rr, n + 1, local) # None)
            => TripDeparture(rr, n, local) <= TripDeparture(rr, n + 1, local)

\* the earliest trip of the route whose departure at position local is at or
\* after previous_arrival_time_at_stop_i (None: there is none)
EarliestCatchableTrip(rr, local, previous_arrival_time_at_stop_i) ==
    LET catchable == { n \in 0..(TripCount(rr) - 1) :
                         /\ TripDeparture(rr, n, local) # None
                         /\ TripDeparture(rr, n, local) >= previous_arrival_time_at_stop_i }
    IN  IF catchable = {} THEN None
        ELSE rr.stop_time_first_index
                 + (CHOOSE n \in catchable : \A m \in catchable : n <= m) * rr.stop_count

\* C7: at a scanned position p of a FIFO route whose stop has a round-(k-1)
\* label, the trip held after the catch step is the earliest trip of the
\* route whose departure at p is at or after that label, both when no trip
\* was held before and when the held trip departs at or after the label.
C7_CatchStepHoldsEarliestCatchableTrip ==
    [][(/\ ScanStep
        /\ pc' = "scan"
        /\ RouteIsFifo(storage.routes[scanned])
        /\ labels[k][ScannedStop] # None
        /\ current_trip_index # None =>
               /\ HeldArrival >= TimeOf(args.departure_at)
               /\ StopTime(current_trip_index + stop_i_local_index).departure_time # None
               /\ StopTime(current_trip_index + stop_i_local_index).departure_time
                      >= labels[k][ScannedStop])
       => current_trip_index' =
              EarliestCatchableTrip(storage.routes[scanned], stop_i_local_index,
                                    labels[k][ScannedStop])]_vars

\* C8: a trip that crosses midnight keeps its post-midnight stops reachable:
\* when the search is over, a stop that a trip reaches after midnight, the
\* trip leaving a labelled stop before midnight at or after the label, has a
\* label, unless the target stop has one and is another stop.
C8_PostMidnightStopsKeepALabel ==
    pc = "done" =>
        \A id \in JourneyIds :
        \A i, j \in 1..Len(JourneyOf(id).route) :
            (/\ i < j
             /\ JourneyOf(id).route[i].departure_time # None
             /\ \E n \in 1..Len(labels) :
                    /\ labels[n][JourneyOf(id).route[i].stop_id] # None
                    /\ labels[n][JourneyOf(id).route[i].stop_id]
                           <= JourneyOf(id).route[i].departure_time
             /\ JourneyOf(id).route[j].arrival_time
                    < JourneyOf(id).route[i].departure_time
             /\ \/ JourneyOf(id).route[j].stop_id = args.arrival_stop_id
                \/ \A n \in 1..Len(labels) : labels[n][args.arrival_stop_id] = None)
            => \E n \in 1..Len(labels) : labels[n][JourneyOf(id).route[j].stop_id] # None

\* C10: after the timetable view is built, every route satisfies the FIFO
\* invariant at every stop position.
C10_EveryRouteIsFifo ==
    pc \in {"round", "scan", "done"} =>
        \A r \in 1..Len(storage.routes) : RouteIsFifo(storage.routes[r])

\* the scans of the round are over, the transfers not yet relaxed
ScansDone == pc = "scan" /\ scanned = None /\ k_routes = {}

\* labels of round k that the scan of one collected route writes when it is
\* the only scan of the round
Contribution(collected) ==
    scan_route(ScanState(NoLabels, round_start.earliest_arrival_times, {}, NoPath, None, 0),
               storage.routes[collected[1]], collected[2]).labels_k

\* the minimum of the arrival times the route scans contribute at a stop
MinimumContribution(stop_index) ==
    LET times == { Contribution(collected)[stop_index] :
                     collected \in round_start.k_routes } \ {None}
    IN  IF times = {} THEN None ELSE CHOOSE t \in times : \A u \in times : t <= u

MaxRangeStart == 3

MaxRangeEnd == 6

MaxRangeStep == 3

NaiveDateTimeRange(from, to, incr) == [from |-> from, to |-> to, incr |-> incr]

\* Iterator::next: the iterator afterwards and the item returned
next_FromFirst(r) ==
    IF r.from >= r.to THEN [range |-> r, item |-> None]
    ELSE [range |-> [r EXCEPT !.from = r.from + r.incr], item |-> r.from]

next(r) ==
    IF r.from > r.to THEN [range |-> r, item |-> None]
    ELSE LET maybe_next == r.from + r.incr
         IN  [range |-> [r EXCEPT !.from = maybe_next],
              item |-> IF maybe_next < r.to THEN maybe_next ELSE None]

RangeArgs ==
    { [from |-> f, to |-> t, incr |-> i] :
        f \in 0..MaxRangeStart, t \in 0..MaxRangeEnd, i \in 1..MaxRangeStep }

InitRange ==
    /\ data_storage = << >>
    /\ args \in RangeArgs
    /\ range = NaiveDateTimeRange(args.from, args.to, args.incr)
    /\ dates = << >>
    /\ pending = {}
    /\ partials = {}
    /\ isochrone_map = << >>
    /\ push_history = << >>
    /\ cache_file = "absent"
    /\ io_log = << >>
    /\ pc = "collect"
    /\ ret = None
    /\ RoutingIdle
    /\ PlanIdle

\* one call of next() by collect(): the item is pushed to the Vec, None ends
\* the collection
RangeNext ==
    /\ pc = "collect"
    /\ \E step \in { next(range) } :
           /\ range' = step.range
           /\ IF step.item = None
              THEN dates' = dates /\ pc' = "collected"
              ELSE dates' = Append(dates, step.item) /\ pc' = "collect"
    /\ UNCHANGED <<data_storage, args, ret, routing_vars, plan_vars, pending, partials,
                   isochrone_map, push_history,
                   cache_file, io_log>>

SpecRange == InitRange /\ [][RangeNext]_vars

\* the instants first + n * step, n = 0, 1, ..., that are before to, in
\* ascending order
InstantsBefore(first, to, step) ==
    [n \in 1..Cardinality({ m \in 0..to : first + m * step < to }) |-> first + (n - 1) * step]

\* C19: the date range iterator over (from, to, step) yields the
\* inclusive-exclusive sequence from, from + step, from + 2 * step, ... up to
\* but not including to.
C19_RangeStartsWithFrom ==
    pc = "collected" => dates = InstantsBefore(args.from, args.to, args.incr)

\* C20: for a positive step the iterator yields in ascending order exactly
\* the instants from + n * step with n >= 1 that are strictly before to;
\* nothing when from > to, nothing when from + step >= to.
C20_RangeStartsOneStepAfterFrom ==
    pc = "collected" =>
        /\ dates = InstantsBefore(args.from + args.incr, args.to, args.incr)
        /\ args.from > args.to => dates = << >>
        /\ args.from + args.incr >= args.to => dates = << >>

\* a range of several steps has been collected
C20_Witness ==
    /\ pc = "collected"
    /\ Len(dates) >= 2
    /\ dates[1] = args.from + args.incr
    /\ args.incr >= 2

\* ------------------------------------------------------------------------
\* src/src/utils.rs and src/src/isochrone.rs: the sweep of
\* compute_optimal_isochrones and compute_worst_isochrones.  The IsochroneMap
\* that compute_isochrones yields for a departure instant is fixed by the
\* timetable; the sweep is given it as args.areas, the areas of the layers
\* of the map of each instant.
\* ------------------------------------------------------------------------
MaxThreads == 4

MaxDeltaTime == 2

\* the value of a call that panics
Panicked == 0 - 2

\* f64::MIN, below every area
F64Min == 0 - 1

compute_remaining_threads(num_threads, used_threads) ==
    IF used_threads > num_threads /\ num_threads # 0 THEN Panicked
    ELSE IF num_threads = 0 THEN 0
    ELSE IF num_threads - used_threads > 1 THEN num_threads - used_threads
    ELSE 1

\* IsochroneMap::compute_max_area: the fold over the areas of the layers
RECURSIVE compute_max_area_fold(_, _)
compute_max_area_fold(max_area, areas) ==
    IF areas = << >> THEN max_area
    ELSE compute_max_area_fold(IF Head(areas) > max_area THEN Head(areas) ELSE max_area,
                               Tail(areas))

compute_max_area_FirstLayer(map) == IF map.areas = << >> THEN F64Min ELSE map.areas[1]

compute_max_area(map) == compute_max_area_fold(F64Min, map.areas)

\* the closures given to reduce
reduce_optimal(lhs, rhs) ==
    IF compute_max_area(lhs) > compute_max_area(rhs) THEN lhs ELSE rhs

reduce_worst(lhs, rhs) ==
    IF compute_max_area(lhs) < compute_max_area(rhs) THEN lhs ELSE rhs

\* the map of a departure instant; num_threads records the workers the call
\* of compute_isochrones was given
IsochroneMapAt(dep, num_threads) ==
    [departure_at |-> dep, areas |-> args.areas[dep], num_threads |-> num_threads]

\* layer areas of a map: nested layers, the last one the largest
AreaStacks == { <<2, 3>>, <<1, 4>> }

SweepInstant == NewDateTime(0, create_time(10, 0))

SweepArgs ==
    { [mode |-> x[1], departure_at |-> SweepInstant, delta_time |-> x[2],
       num_threads |-> x[3], areas |-> x[4]] :
        x \in {"optimal", "worst"} \X (0..MaxDeltaTime) \X (1..MaxThreads)
              \X [(SweepInstant - MaxDeltaTime)..(SweepInstant + MaxDeltaTime)
                      -> AreaStacks] }

InitSweep ==
    /\ data_storage = << >>
    /\ args \in SweepArgs
    /\ pc = "sweep"
    /\ ret = None
    /\ RoutingIdle
    /\ PlanIdle
    /\ IsochroneIdle

\* isochrone.rs 100-108: the range of the sweep window
SweepStart ==
    /\ pc = "sweep"
    /\ range' = NaiveDateTimeRange(args.departure_at - args.delta_time,
                                   args.departure_at + args.delta_time, 1)
    /\ pc' = "collect"
    /\ UNCHANGED <<data_storage, args, ret, routing_vars, plan_vars, dates, pending,
                   partials, isochrone_map, push_history,
                   cache_file, io_log>>

\* isochrone.rs 109-114: the collected instants are handed to the workers
StartMap ==
    /\ pc = "collected"
    /\ pending' = { dates[i] : i \in 1..Len(dates) }
    /\ pc' = "map"
    /\ UNCHANGED <<data_storage, args, ret, routing_vars, plan_vars, range, dates,
                   partials, isochrone_map, push_history,
                   cache_file, io_log>>

\* isochrone.rs 115-131: the map closure runs for one instant, on any worker
MapDate ==
    /\ pc = "map"
    /\ \E dep \in pending :
       \E num_threads \in { compute_remaining_threads(args.num_threads, Len(dates)) } :
           IF num_threads = Panicked
           THEN pc' = "panic" /\ UNCHANGED <<pending, partials>>
           ELSE /\ pending' = pending \ {dep}
                /\ partials' = partials \cup { IsochroneMapAt(dep, num_threads) }
                /\ pc' = "map"
    /\ UNCHANGED <<data_storage, args, ret, routing_vars, plan_vars, range, dates,
                   isochrone_map, push_history,
                   cache_file, io_log>>

\* isochrone.rs 132-138: the reduction combines two of the results it holds
Reduce ==
    /\ pc = "map"
    /\ \E lhs \in partials : \E rhs \in partials \ {lhs} :
           partials' = (partials \ {lhs, rhs})
                           \cup { IF args.mode = "optimal" THEN reduce_optimal(lhs, rhs)
                                  ELSE reduce_worst(lhs, rhs) }
    /\ UNCHANGED <<data_storage, pc, args, ret, routing_vars, plan_vars, range, dates,
                   pending, isochrone_map, push_history,
                   cache_file, io_log>>

\* isochrone.rs 140-147: the reduced map is returned; expect panics on None
SweepReturn ==
    /\ pc = "map"
    /\ pending = {}
    /\ Cardinality(partials) <= 1
    /\ IF partials = {}
       THEN pc' = "panic" /\ ret' = ret
       ELSE pc' = "returned" /\ ret' = CHOOSE map \in partials : TRUE
    /\ UNCHANGED <<data_storage, args, routing_vars, plan_vars, isochrone_vars>>

NextSweep ==
    \/ SweepStart
    \/ RangeNext
    \/ StartMap
    \/ MapDate
    \/ Reduce
    \/ SweepReturn

SpecSweep == InitSweep /\ [][NextSweep]_vars

\* area(P_{T/I}): the area of the last layer of a map
LastLayerArea(areas) == areas[Len(areas)]

SweptInstants == { dates[i] : i \in 1..Len(dates) }

\* the extreme of the last-layer areas over the swept instants: the maximum
\* for the optimal sweep, the minimum for the worst
IsExtremeArea(area) ==
    \A dep \in SweptInstants :
        IF args.mode = "optimal" THEN LastLayerArea(args.areas[dep]) <= area
        ELSE LastLayerArea(args.areas[dep]) >= area

C12_EarliestExtremeInstantWins ==
    pc = "returned" =>
        \A dep \in SweptInstants :
            IsExtremeArea(LastLayerArea(args.areas[dep])) => ret.departure_at <= dep

\* C13: for every worker count W >= 1 and every number M of swept instants,
\* M > W included, each inner computation is given max(1, W - M) workers and
\* the sweep starts its inner calls.
C13_InnerCallsGetAtLeastOneWorker ==
    (args.num_threads >= 1 /\ Len(dates) > 0 /\ pc \in {"map", "returned", "panic"}) =>
        /\ pc # "panic"
        /\ \A map \in partials :
               map.num_threads = IF args.num_threads - Len(dates) > 1
                                 THEN args.num_threads - Len(dates) ELSE 1

\* ------------------------------------------------------------------------
\* src/src/isochrone.rs: unique_coordinates_from_routes.  A route is a
\* RouteResult (routing/models.rs); of its sections only the last one is
\* read.
\* ------------------------------------------------------------------------
MaxRoutes == 3

RouteSectionResult(journey_id, stop_id, lv95_coordinates, duration) ==
    [journey_id |-> journey_id, arrival_stop_id |-> stop_id,
     arrival_stop_lv95_coordinates |-> lv95_coordinates, duration |-> duration]

RouteResult(arrival, sections) == [arrival_at |-> arrival, sections |-> sections]

is_walking_trip(section) == section.journey_id = None

\* RouteResult::arrival_at: a last section on foot is added to the field
route_result_arrival_at(route) ==
    IF route.sections # << >> /\ is_walking_trip(route.sections[Len(route.sections)])
    THEN route.arrival_at + route.sections[Len(route.sections)].duration
    ELSE route.arrival_at

\* one turn of the loop over the routes: coordinates_duration afterwards
unique_coordinates_step_KeepLast(coordinates_duration, route, departure_at) ==
    LET arrival_stop == route.sections[Len(route.sections)]
    IN  IF arrival_stop.arrival_stop_lv95_coordinates = None THEN coordinates_duration
        ELSE [id \in DOMAIN coordinates_duration \cup {arrival_stop.arrival_stop_id} |->
                 IF id = arrival_stop.arrival_stop_id
                 THEN <<arrival_stop.arrival_stop_lv95_coordinates,
                        route_result_arrival_at(route) - departure_at>>
                 ELSE coordinates_duration[id]]

unique_coordinates_step(coordinates_duration, route, departure_at) ==
    LET arrival_stop == route.sections[Len(route.sections)]
        id_ == arrival_stop.arrival_stop_id
        new_duration == route_result_arrival_at(route) - departure_at
    IN  IF arrival_stop.arrival_stop_lv95_coordinates = None THEN coordinates_duration
        ELSE IF id_ \in DOMAIN coordinates_duration
             THEN IF new_duration < coordinates_duration[id_][2]
                  THEN [coordinates_duration EXCEPT ![id_][2] = new_duration]
                  ELSE coordinates_duration
        ELSE [id \in DOMAIN coordinates_duration \cup {id_} |->
                 IF id = id_ THEN <<arrival_stop.arrival_stop_lv95_coordinates, new_duration>>
                 ELSE coordinates_duration[id]]

\* the HashMap after the loop over the routes
RECURSIVE coordinates_duration_of(_, _)
coordinates_duration_of(rs, departure_at) ==
    IF rs = << >> THEN << >>
    ELSE unique_coordinates_step(
             coordinates_duration_of(SubSeq(rs, 1, Len(rs) - 1), departure_at),
             rs[Len(rs)], departure_at)

\* into_values().collect(): the values in the order `order` of the keys
unique_coordinates_from_routes(rs, departure_at, order) ==
    [i \in 1..Len(order) |-> coordinates_duration_of(rs, departure_at)[order[i]]]

KeyOrders(keys) ==
    { order \in [1..Cardinality(keys) -> keys] :
        \A i, j \in 1..Cardinality(keys) : order[i] = order[j] => i = j }

\* ------------------------------------------------------------------------
\* src/src/isochrone/utils.rs: adjust_departure_at.  Instants and durations
\* of this function are in seconds; positions are metres along a line, and
\* haversine_distance * 1000.0 is the distance between two of them.
\* ------------------------------------------------------------------------
MaxPositions == 4

WALKING_SPEED_IN_KILOMETERS_PER_HOUR == 5

haversine_distance_in_meters(origin, stop_position) ==
    IF origin >= stop_position THEN origin - stop_position ELSE stop_position - origin

\* Duration::seconds((distance / (speed / 3.6)) as i64)
distance_to_time(distance, speed_in_kilometers_per_hour) ==
    (distance * 36) \div (speed_in_kilometers_per_hour * 10)

adjust_departure_at_KeepingTimeLimit(departure_at, time_limit, origin, stop_position) ==
    <<departure_at + distance_to_time(haversine_distance_in_meters(origin, stop_position),
                                      WALKING_SPEED_IN_KILOMETERS_PER_HOUR),
      time_limit>>

adjust_departure_at(departure_at, time_limit, origin, stop_position) ==
    LET duration == distance_to_time(haversine_distance_in_meters(origin, stop_position),
                                     WALKING_SPEED_IN_KILOMETERS_PER_HOUR)
    IN  <<departure_at + duration, time_limit - duration>>

\* ------------------------------------------------------------------------
\* src/src/isochrone/circles.rs and src/src/isochrone.rs: the layers of
\* compute_isochrones in the Circles display mode.  The plane is cut along
\* the easting axis through the stops: a position is an easting in metres
\* on a grid of 250 m, a region (the area a MultiPolygon covers) is the set
\* of the grid positions in it, and its area is their number.  Durations
\* are minutes.
\* ------------------------------------------------------------------------
MaxGridPosition == 8

MaxCloudPoints == 2

GridPositions == { 250 * g : g \in 0..MaxGridPosition }

\* duration.num_seconds() as f64 * (speed / 3.6), in whole metres
time_to_distance(duration, speed_in_kilometers_per_hour) ==
    (duration * 60 * speed_in_kilometers_per_hour * 10) \div 36

\* the region inside the polygon of generate_lv95_circle_points: its first
\* vertex lies on the axis, at the radius from the centre
circle_region(center, radius) ==
    { g \in GridPositions :
        (IF g >= center THEN g - center ELSE center - g) <= radius }

\* the points of the cloud that circles::get_polygons keeps, with the radius
\* of their circles
circle_radii(data, time_limit) ==
    { <<data[i][1],
        time_to_distance(time_limit - data[i][2], WALKING_SPEED_IN_KILOMETERS_PER_HOUR)>> :
        i \in { j \in 1..Len(data) : data[j][2] <= time_limit } }

\* circles::get_polygons: the union of the circles
circles_get_polygons(data, time_limit) ==
    UNION { circle_region(c[1], c[2]) : c \in circle_radii(data, time_limit) }

compute_isochrones_FromTheLargest(data, time_limit, interval, excluded_polygons) ==
    [i \in 1..(time_limit \div interval) |->
        [polygons |-> circles_get_polygons(data,
                          interval * ((time_limit \div interval) - i + 1)) \ excluded_polygons,
         time_limit |-> interval * ((time_limit \div interval) - i + 1)]]

\* the isochrones of compute_isochrones: layer i + 1 has the time limit
\* interval * (i + 1) and the excluded polygons subtracted
compute_isochrones(data, time_limit, interval, excluded_polygons) ==
    [i \in 1..(time_limit \div interval) |->
        [polygons |-> circles_get_polygons(data, interval * i) \ excluded_polygons,
         time_limit |-> interval * i]]

\* Isochrone::compute_area
compute_area(isochrone) == Cardinality(isochrone.polygons)

\* ------------------------------------------------------------------------
\* src/src/isochrone/models.rs: IsochroneMap::get_polygons.  A stored
\* isochrone is a Vec of exterior rings; a ring is the region it encloses, a
\* Polygon an exterior ring and a Vec of interior rings.
\* ------------------------------------------------------------------------
MaxLayers == 2

Polygon(exterior, interiors) == [exterior |-> exterior, interiors |-> interiors]

\* Isochrone::to_polygons
to_polygons(isochrone) == [i \in 1..Len(isochrone) |-> Polygon(isochrone[i], << >>)]

PolygonRegion(polygon) ==
    polygon.exterior \ UNION { polygon.interiors[i] : i \in 1..Len(polygon.interiors) }

\* geo's Contains: the other polygon lies in the region of this one
contains(polygon, other) ==
    /\ PolygonRegion(other) # {}
    /\ PolygonRegion(other) \subseteq PolygonRegion(polygon)

\* the loop over the polygons of the layer below, for one polygon p_ext
RECURSIVE push_interiors(_, _)
push_interiors(p_ext, originals) ==
    IF originals = << >> THEN p_ext
    ELSE push_interiors(
             IF contains(p_ext, Head(originals))
             THEN Polygon(p_ext.exterior, Append(p_ext.interiors, Head(originals).exterior))
             ELSE p_ext,
             Tail(originals))

\* IsochroneMap::get_polygons; `polygons.len() - 1` on no isochrone panics
get_polygons(isochrones) ==
    IF isochrones = << >> THEN Panicked
    ELSE [i \in 1..Len(isochrones) |->
             IF i = 1 THEN to_polygons(isochrones[1])
             ELSE [j \in 1..Len(isochrones[i]) |->
                      push_interiors(to_polygons(isochrones[i])[j],
                                     to_polygons(isochrones[i - 1]))]]

\* ------------------------------------------------------------------------
\* Calls of the pure functions of the isochrone module, one call per
\* behaviour: args holds the arguments, ret the value returned.
\* ------------------------------------------------------------------------
\* stop 3 has no LV95 coordinates
StopCoordinates(stop_id) == IF stop_id = 3 THEN None ELSE 100 + stop_id

TestRoutes ==
    { RouteResult(arrival,
                  <<RouteSectionResult(journey, stop_id, StopCoordinates(stop_id),
                                       IF journey = None THEN 15 ELSE None)>>) :
        arrival \in {610, 620}, stop_id \in 1..3, journey \in {None, 1} }

SeqsUpTo(n, S) == UNION { [1..m -> S] : m \in 0..n }

UniqueCoordinatesArgs ==
    { [call |-> "unique_coordinates_from_routes", routes |-> rs,
       departure_at |-> 600] : rs \in SeqsUpTo(MaxRoutes, TestRoutes) }

AdjustDepartureArgs ==
    { [call |-> "adjust_departure_at", departure_at |-> departure, time_limit |-> limit,
       origin |-> 125 * o, stop_position |-> 125 * p] :
        departure \in {36000, 36060}, limit \in {60, 1800, 3600},
        o \in 0..MaxPositions, p \in 0..MaxPositions }

CloudPoints == { <<center, duration>> : center \in {250, 1000, 1500}, duration \in {0, 3, 5, 7} }

ComputeIsochronesArgs ==
    { [call |-> "compute_isochrones", data |-> data, time_limit |-> limit,
       interval |-> interval, excluded_polygons |-> excluded] :
        data \in SeqsUpTo(MaxCloudPoints, CloudPoints), limit \in {6, 9, 10},
        interval \in {3, 5}, excluded \in { {}, {500}, {1000, 1250} } }

Rings == { {2, 3}, {1, 2, 3, 4}, {6, 7}, 1..7, 0..8 }

GetPolygonsArgs ==
    { [call |-> "get_polygons", isochrones |-> isochrones] :
        isochrones \in SeqsUpTo(MaxLayers, SeqsUpTo(2, Rings)) }

InitIsochrone ==
    /\ data_storage = << >>
    /\ args \in UniqueCoordinatesArgs \cup AdjustDepartureArgs
                  \cup ComputeIsochronesArgs \cup GetPolygonsArgs
    /\ pc = "ready"
    /\ ret = None
    /\ RoutingIdle
    /\ PlanIdle
    /\ range = << >>
    /\ dates = << >>
    /\ pending = {}
    /\ partials = {}
    /\ isochrone_map = IF args.call = "get_polygons" THEN args.isochrones ELSE << >>
    /\ push_history = << >>
    /\ cache_file = "absent"
    /\ io_log = << >>

\* isochrone.rs 550-576
CallUniqueCoordinates ==
    /\ pc = "ready"
    /\ args.call = "unique_coordinates_from_routes"
    /\ \E order \in KeyOrders(DOMAIN coordinates_duration_of(args.routes, args.departure_at)) :
           ret' = unique_coordinates_from_routes(args.routes, args.departure_at, order)
    /\ pc' = "returned"
    /\ UNCHANGED <<data_storage, args, routing_vars, plan_vars, isochrone_vars>>

\* isochrone/utils.rs 146-171
CallAdjustDepartureAt ==
    /\ pc = "ready"
    /\ args.call = "adjust_departure_at"
    /\ ret' = adjust_departure_at(args.departure_at, args.time_limit, args.origin,
                                  args.stop_position)
    /\ pc' = "returned"
    /\ UNCHANGED <<data_storage, args, routing_vars, plan_vars, isochrone_vars>>

\* isochrone.rs 453-488
CallComputeIsochrones ==
    /\ pc = "ready"
    /\ args.call = "compute_isochrones"
    /\ ret' = compute_isochrones(args.data, args.time_limit, args.interval,
                                 args.excluded_polygons)
    /\ pc' = "returned"
    /\ UNCHANGED <<data_storage, args, routing_vars, plan_vars, isochrone_vars>>

\* isochrone/models.rs 80-100: &self is borrowed immutably
CallGetPolygons ==
    /\ pc = "ready"
    /\ args.call = "get_polygons"
    /\ ret' = get_polygons(isochrone_map)
    /\ pc' = IF isochrone_map = << >> THEN "panic" ELSE "returned"
    /\ UNCHANGED <<data_storage, args, routing_vars, plan_vars, isochrone_vars>>

NextIsochrone ==
    \/ CallUniqueCoordinates
    \/ CallAdjustDepartureAt
    \/ CallComputeIsochrones
    \/ CallGetPolygons

SpecIsochrone == InitIsochrone /\ [][NextIsochrone]_vars

Returned(call) == pc = "returned" /\ args.call = call

\* the routes of the call that end at a stop with LV95 coordinates
RoutesWithCoordinates ==
    { i \in 1..Len(args.routes) :
        args.routes[i].sections[Len(args.routes[i].sections)].arrival_stop_lv95_coordinates
            # None }

ArrivalStopOf(i) == args.routes[i].sections[Len(args.routes[i].sections)]

DurationOf(i) == route_result_arrival_at(args.routes[i]) - args.departure_at

\* C14: unique_coordinates_from_routes returns exactly one entry for each
\* distinct arrival stop that has LV95 coordinates, made of these coordinates
\* and of the smallest arrival - departure_at over the routes ending at the
\* stop; routes ending at a stop without coordinates add nothing, and the order
\* of the routes does not matter.
C14_OneEntryPerStopWithMinimumDuration ==
    Returned("unique_coordinates_from_routes") =>
        /\ Len(ret) = Cardinality({ ArrivalStopOf(i).arrival_stop_id :
                                      i \in RoutesWithCoordinates })
        /\ \A i \in RoutesWithCoordinates :
               \E e \in 1..Len(ret) :
                   /\ ret[e][1] = ArrivalStopOf(i).arrival_stop_lv95_coordinates
                   /\ \A j \in RoutesWithCoordinates :
                          ArrivalStopOf(j).arrival_stop_id = ArrivalStopOf(i).arrival_stop_id
                              => ret[e][2] <= DurationOf(j)
                   /\ \E j \in RoutesWithCoordinates :
                          /\ ArrivalStopOf(j).arrival_stop_id = ArrivalStopOf(i).arrival_stop_id
                          /\ ret[e][2] = DurationOf(j)

C14_Witness ==
    /\ Returned("unique_coordinates_from_routes")
    /\ Len(ret) = 1
    /\ \E i, j \in RoutesWithCoordinates :
           /\ i < j
           /\ ArrivalStopOf(i).arrival_stop_id = ArrivalStopOf(j).arrival_stop_id
           /\ DurationOf(i) < DurationOf(j)
    /\ \E i \in 1..Len(args.routes) : i \notin RoutesWithCoordinates

WalkToStop ==
    distance_to_time(haversine_distance_in_meters(args.origin, args.stop_position),
                     WALKING_SPEED_IN_KILOMETERS_PER_HOUR)

\* C15: adjust_departure_at returns the departure moved later by the walk w
\* from the origin to the stop and the time limit shortened by w, so that the
\* absolute deadline departure + time limit is the same before and after.
C15_WalkMovesDepartureAndKeepsDeadline ==
    Returned("adjust_departure_at") =>
        /\ ret[1] = args.departure_at + WalkToStop
        /\ ret[2] = args.time_limit - WalkToStop
        /\ ret[1] + ret[2] = args.departure_at + args.time_limit

C15_Witness ==
    /\ Returned("adjust_departure_at")
    /\ WalkToStop > 0
    /\ ret[1] > args.departure_at
    /\ ret[2] < args.time_limit

ContainedExteriors(isochrones, i, j) ==
    { isochrones[i - 1][m] : m \in { n \in 1..Len(isochrones[i - 1]) :
          contains(Polygon(isochrones[i][j], << >>),
                   Polygon(isochrones[i - 1][n], << >>)) } }

InteriorsOf(polygon) == { polygon.interiors[m] : m \in 1..Len(polygon.interiors) }

\* C18: IsochroneMap::get_polygons returns, for every layer k >= 2, each shell
\* of the layer with the exterior of every polygon of the stored layer k - 1
\* that the shell contains as an interior ring, and no other ring; the first
\* layer is returned without rings and the stored isochrones are not modified.
C18_EveryContainedExteriorIsAnInterior ==
    Returned("get_polygons") =>
        /\ isochrone_map = args.isochrones
        /\ Len(ret) = Len(isochrone_map)
        /\ ret[1] = to_polygons(isochrone_map[1])
        /\ \A i \in 2..Len(ret) :
               /\ Len(ret[i]) = Len(isochrone_map[i])
               /\ \A j \in 1..Len(ret[i]) :
                      /\ ret[i][j].exterior = isochrone_map[i][j]
                      /\ InteriorsOf(ret[i][j]) = ContainedExteriors(isochrone_map, i, j)

\* ------------------------------------------------------------------------
\* src/src/routing/utils.rs: RouteQueue, any sequence of push and pop.  Its
\* RouteHeapItem and Ord are those of routing/exploration.rs.
\* ------------------------------------------------------------------------
MaxPushes == 4

pop_NewestAmongEqual(heap) ==
    IF heap = {} THEN [heap |-> {}, route |-> NoRoute]
    ELSE LET top == CHOOSE x \in heap : \A y \in heap :
                        \/ x.arrival_at < y.arrival_at
                        \/ x.arrival_at = y.arrival_at /\ x.seq >= y.seq
         IN  [heap |-> heap \ {top}, route |-> top.route]

\* RouteQueue::push: the heap and the counter afterwards
push(heap, n, route) == [heap |-> heap \cup {RouteHeapItem(route, n)}, seq |-> n + 1]

\* RouteQueue::pop: the heap afterwards and the Option<Route> returned
pop(heap) ==
    IF heap = {} THEN [heap |-> {}, route |-> NoRoute]
    ELSE [heap |-> heap \ {HeapTop(heap)}, route |-> HeapTop(heap).route]

\* routes to two stops, each reached at one of two instants
QueueRoutes ==
    { MkRoute(<<MkSection(1, 1, stop_id, arrival, None)>>, {1, stop_id}) :
        stop_id \in {2, 3}, arrival \in {610, 620} }

\* RouteQueue::new
InitQueue ==
    /\ data_storage = << >>
    /\ args = << >>
    /\ pc = "queue"
    /\ ret = None
    /\ RoutingIdle
    /\ PlanIdle
    /\ IsochroneIdle

QueuePush ==
    /\ pc \in {"queue", "pushed", "popped"}
    /\ seq < MaxPushes
    /\ \E route \in QueueRoutes :
          /\ queue' = push(queue, seq, route).heap
          /\ seq' = push(queue, seq, route).seq
          /\ push_history' = Append(push_history, route)
    /\ pc' = "pushed"
    /\ UNCHANGED <<data_storage, args, ret, routes, solutions, earliest_arrival_by_stop_id,
                   journeys_to_ignore, round, new_routes, visited_routes, current_route,
                   evaluated, plan_vars, range, dates, pending, partials, isochrone_map,
                   cache_file, io_log>>

QueuePop ==
    /\ pc \in {"queue", "pushed", "popped"}
    /\ queue' = pop(queue).heap
    /\ ret' = pop(queue).route
    /\ pc' = "popped"
    /\ UNCHANGED <<data_storage, args, routes, solutions, earliest_arrival_by_stop_id,
                   journeys_to_ignore, round, seq, new_routes, visited_routes,
                   current_route, evaluated, plan_vars, isochrone_vars>>

NextQueue == QueuePush \/ QueuePop

SpecQueue == InitQueue /\ [][NextQueue]_vars

\* C16: whatever pushes and pops came before, a pop returns the queued route
\* with the smallest arrival time and, among the queued routes that arrive at
\* that time, the one pushed first; on an empty queue it returns None.
C16_PopReturnsEarliestThenFirstPushed ==
    [][pc' = "popped" =>
          IF queue = {} THEN ret' = NoRoute /\ queue' = {}
          ELSE \E x \in queue :
                  /\ queue' = queue \ {x}
                  /\ ret' = x.route
                  /\ push_history[x.seq + 1] = x.route
                  /\ \A y \in queue :
                        /\ push_history[y.seq + 1] = y.route
                        /\ arrival_at(x.route) <= arrival_at(y.route)
                        /\ arrival_at(x.route) = arrival_at(y.route) => x.seq <= y.seq]_vars

C16_Witness ==
    /\ pc = "popped"
    /\ ret # NoRoute
    /\ \E y \in queue :
          /\ arrival_at(y.route) = arrival_at(ret)
          /\ y.route # ret
          /\ \E n \in 1..y.seq : push_history[n] = ret
    /\ \E z \in queue : z.seq = 0 /\ arrival_at(z.route) > arrival_at(ret)

\* ------------------------------------------------------------------------
\* src/src/isochrone/externals.rs: the caches of ExcludedPolygons and of
\* HectareData.  cache_file is what the file of the key holds: "absent",
\* "corrupt" (bytes postcard cannot decode) or the value serialized in it.
\* The sources of a call are "unavailable" or yield a value.
\* ------------------------------------------------------------------------
MaxCalls == 3

SourceValues == {"lakes 2024", "lakes 2025"}

try_new_LoadingFirst(cache, force_rebuild_cache, sources) ==
    IF cache # "absent"
    THEN [ok |-> cache # "corrupt", value |-> cache, cache |-> cache,
          io |-> <<"read cache">>]
    ELSE IF sources = "unavailable"
         THEN [ok |-> FALSE, value |-> "source error", cache |-> cache,
               io |-> <<"read sources">>]
         ELSE [ok |-> TRUE, value |-> sources, cache |-> sources,
               io |-> <<"read sources", "write cache">>]

\* ExcludedPolygons::try_new: the Result, the cache file afterwards and the
\* reads and writes made; load_from_cache(..)? returns its error
try_new(cache, force_rebuild_cache, sources) ==
    IF ~force_rebuild_cache /\ cache # "absent"
    THEN IF cache = "corrupt"
         THEN [ok |-> FALSE, value |-> "decode error", cache |-> cache,
               io |-> <<"read cache">>]
         ELSE [ok |-> TRUE, value |-> cache, cache |-> cache, io |-> <<"read cache">>]
    ELSE IF sources = "unavailable"
         THEN [ok |-> FALSE, value |-> "source error", cache |-> cache,
               io |-> <<"read sources">>]
         ELSE [ok |-> TRUE, value |-> sources, cache |-> sources,
               io |-> <<"read sources", "write cache">>]

\* HectareData::new: load_from_cache(..).ok() turns a failed load into None
hectare_data_new(cache, force_rebuild_cache, sources) ==
    IF cache # "absent" /\ ~force_rebuild_cache /\ cache # "corrupt"
    THEN [ok |-> TRUE, value |-> cache, cache |-> cache, io |-> <<"read cache">>]
    ELSE LET loaded == IF cache # "absent" /\ ~force_rebuild_cache
                       THEN <<"read cache">> ELSE << >>
         IN  IF sources = "unavailable"
             THEN [ok |-> FALSE, value |-> "source error", cache |-> cache,
                   io |-> loaded \o <<"read sources">>]
             ELSE [ok |-> TRUE, value |-> sources, cache |-> sources,
                   io |-> loaded \o <<"read sources", "write cache">>]

InitExternals ==
    /\ data_storage = << >>
    /\ args = << >>
    /\ pc = "ready"
    /\ ret = None
    /\ RoutingIdle
    /\ PlanIdle
    /\ range = << >>
    /\ dates = << >>
    /\ pending = {}
    /\ partials = {}
    /\ isochrone_map = << >>
    /\ push_history = << >>
    /\ cache_file \in {"absent", "corrupt"} \cup SourceValues
    /\ io_log = << >>

CallTryNew ==
    /\ pc \in {"ready", "returned"}
    /\ Len(SelectSeq(io_log, LAMBDA op : op = "call")) < MaxCalls
    /\ \E force_rebuild_cache \in BOOLEAN, sources \in {"unavailable"} \cup SourceValues :
          /\ args' = [call |-> "ExcludedPolygons::try_new",
                      force_rebuild_cache |-> force_rebuild_cache, sources |-> sources]
          /\ ret' = [ok |-> try_new(cache_file, force_rebuild_cache, sources).ok,
                     value |-> try_new(cache_file, force_rebuild_cache, sources).value]
          /\ cache_file' = try_new(cache_file, force_rebuild_cache, sources).cache
          /\ io_log' = io_log \o <<"call">>
                           \o try_new(cache_file, force_rebuild_cache, sources).io
    /\ pc' = "returned"
    /\ UNCHANGED <<data_storage, routing_vars, plan_vars, range, dates, pending, partials,
                   isochrone_map, push_history>>

CallHectareDataNew ==
    /\ pc \in {"ready", "returned"}
    /\ Len(SelectSeq(io_log, LAMBDA op : op = "call")) < MaxCalls
    /\ \E force_rebuild_cache \in BOOLEAN, sources \in {"unavailable"} \cup SourceValues :
          /\ args' = [call |-> "HectareData::new",
                      force_rebuild_cache |-> force_rebuild_cache, sources |-> sources]
          /\ ret' = [ok |-> hectare_data_new(cache_file, force_rebuild_cache, sources).ok,
                     value |-> hectare_data_new(cache_file, force_rebuild_cache, sources).value]
          /\ cache_file' = hectare_data_new(cache_file, force_rebuild_cache, sources).cache
          /\ io_log' = io_log \o <<"call">>
                           \o hectare_data_new(cache_file, force_rebuild_cache, sources).io
    /\ pc' = "returned"
    /\ UNCHANGED <<data_storage, routing_vars, plan_vars, range, dates, pending, partials,
                   isochrone_map, push_history>>

NextExternals == CallTryNew \/ CallHectareDataNew

SpecExternals == InitExternals /\ [][NextExternals]_vars

\* the reads and writes of the call a step makes
StepIo == SubSeq(io_log', Len(io_log) + 2, Len(io_log'))

Reads(io, what) == \E n \in 1..Len(io) : io[n] = what

\* C21: a call of ExcludedPolygons::try_new with force_rebuild_cache set
\* never reads the cache file: it reads the sources and, when they can be
\* read, writes their value to the cache file and returns it; a call with the
\* flag clear that finds a decodable cache file returns the value in the file
\* and reads no source.
C21_ForceRebuildSkipsTheCache ==
    [][(io_log' # io_log /\ args'.call = "ExcludedPolygons::try_new") =>
          /\ args'.force_rebuild_cache =>
                /\ ~Reads(StepIo, "read cache")
                /\ Reads(StepIo, "read sources")
                /\ args'.sources # "unavailable" =>
                      /\ ret' = [ok |-> TRUE, value |-> args'.sources]
                      /\ cache_file' = args'.sources
                      /\ Reads(StepIo, "write cache")
          /\ (~args'.force_rebuild_cache /\ cache_file \notin {"absent", "corrupt"}) =>
                /\ ret' = [ok |-> TRUE, value |-> cache_file]
                /\ StepIo = <<"read cache">>
                /\ cache_file' = cache_file]_vars

C21_Witness ==
    /\ pc = "returned"
    /\ args.call = "ExcludedPolygons::try_new"
    /\ args.force_rebuild_cache
    /\ Len(io_log) > 3
    /\ io_log[Len(io_log) - 3] = "read cache"
    /\ ret.ok
    /\ cache_file = args.sources
    /\ io_log[Len(io_log)] = "write cache"

\* C22: a call that finds a cache file it cannot decode treats it as a miss,
\* for ExcludedPolygons and for HectareData alike: it rebuilds the value from
\* the sources, rewrites the cache file and succeeds.
C22_UndecodableCacheIsAMiss ==
    [][(io_log' # io_log /\ ~args'.force_rebuild_cache /\ cache_file = "corrupt"
            /\ args'.sources # "unavailable") =>
          /\ ret' = [ok |-> TRUE, value |-> args'.sources]
          /\ cache_file' = args'.sources
          /\ Reads(StepIo, "write cache")]_vars

\* ------------------------------------------------------------------------
\* Calls of src/src/service.rs (the /isochrones handler), of
\* src/src/routing/models.rs (Transport::from, RouteResult::number_changes)
\* and of compute_average_isochrones (src/src/isochrone.rs), one call per
\* behaviour: args holds the arguments, ret the value returned.
\* ------------------------------------------------------------------------
MaxSections == 3

\* service.rs compute_isochrones: the status answered and the computation
\* started; u32 % 0 panics
service_compute_isochrones(start_date, end_date, params) ==
    IF params.departure_date < start_date \/ params.departure_date > end_date
    THEN [status |-> 400, computed |-> "none"]
    ELSE IF params.isochrone_interval = 0
    THEN [status |-> Panicked, computed |-> "none"]
    ELSE IF params.time_limit % params.isochrone_interval # 0
    THEN [status |-> 400, computed |-> "none"]
    ELSE IF params.display_mode \notin {"circles", "contour_line"}
    THEN [status |-> 400, computed |-> "none"]
    ELSE [status |-> 200,
          computed |-> IF params.find_optimal THEN "compute_optimal_isochrones"
                       ELSE "compute_isochrones"]

\* impl From<&TransportType> for Transport: the variant, or the panic of the
\* last arm
transport_from(designation) ==
    CASE designation = "SL" -> "Chairlift"
      [] designation = "ASC" -> "Elevator"
      [] designation = "CC" -> "RackRailroad"
      [] designation \in {"BAT", "FAE"} -> "Boat"
      [] designation \in {"B", "BN", "BP", "CAR", "EV", "EXB", "RUB", "TX"} -> "Bus"
      [] designation = "FUN" -> "Funicular"
      [] designation = "M" -> "Underground"
      [] designation \in {"GB", "PB"} -> "GondolaLift"
      [] designation \in {"EC", "EXT", "IC", "ICE", "IR", "NJ", "PE", "R", "RB", "RE",
                          "RJX", "S", "TER", "TGV", "SN"} -> "Train"
      [] designation = "T" -> "Tramway"
      [] designation = "UUU" -> "Unknown"
      [] OTHER -> "panic"

Transports ==
    {"Boat", "Bus", "Chairlift", "Elevator", "Funicular", "GondolaLift", "RackRailroad",
     "Train", "Tramway", "Unknown", "Underground", "Walk"}

\* RouteResult::number_changes: the outcomes of the builds.  count() - 1 is
\* an unsigned subtraction: below zero it panics where overflow is checked
\* and wraps to usize::MAX ("wrapped") where it is not
number_changes(route) ==
    LET count == Cardinality({ i \in 1..Len(route.sections) :
                                 ~is_walking_trip(route.sections[i]) })
    IN  IF route.sections # << >>
        THEN IF count >= 1 THEN { [outcome |-> "value", value |-> count - 1] }
             ELSE { [outcome |-> "panic", value |-> 0],
                    [outcome |-> "wrapped", value |-> 0] }
        ELSE { [outcome |-> "value", value |-> 0] }

\* collect() on a NaiveDateTimeRange
RECURSIVE collect(_)
collect(r) ==
    IF next(r).item = None THEN << >> ELSE <<next(r).item>> \o collect(next(r).range)

\* compute_average_isochrones, isochrone.rs 268-299: the cloud of each swept
\* minute, keyed by stop as before into_values()
average_clouds(departure_at, delta_time, routes_of) ==
    LET data == collect(NaiveDateTimeRange(departure_at - delta_time,
                                           departure_at + delta_time, 1))
    IN  [i \in 1..Len(data) |-> coordinates_duration_of(routes_of[data[i]], departure_at)]

ServiceArgs ==
    { [call |-> "service", start_date |-> 10, end_date |-> 20,
       params |-> [departure_date |-> x[1], time_limit |-> x[2],
                   isochrone_interval |-> x[3], display_mode |-> x[4],
                   find_optimal |-> x[5]]] :
        x \in {9, 10, 15, 20, 21} \X {0, 30, 45, 60} \X {0, 10, 15, 30}
              \X {"circles", "contour_line", "hexagons"} \X BOOLEAN }

TransportArgs ==
    { [call |-> "Transport::from", designation |-> d] :
        d \in {"SL", "ASC", "CC", "BAT", "FAE", "B", "BN", "BP", "CAR", "EV", "EXB", "RUB",
               "TX", "FUN", "M", "GB", "PB", "EC", "EXT", "IC", "ICE", "IR", "NJ", "PE",
               "R", "RB", "RE", "RJX", "S", "TER", "TGV", "SN", "T", "UUU",
               "", "ZZZ", "sl", "WALK"} }

NumberChangesArgs ==
    { [call |-> "number_changes", route |-> RouteResult(620, sections)] :
        sections \in SeqsUpTo(MaxSections,
                              { RouteSectionResult(1, 2, StopCoordinates(2), None),
                                RouteSectionResult(None, 2, StopCoordinates(2), 5) }) }

\* the routes of one swept minute: one route to stop 1, found by a search
\* that left at the minute and took `travel` minutes
RoutesFromOrigin(minute, travel) ==
    <<RouteResult(minute + travel, <<RouteSectionResult(1, 1, StopCoordinates(1), None)>>)>>

AverageArgs ==
    { [call |-> "compute_average_isochrones", departure_at |-> SweepInstant,
       delta_time |-> x[1], time_limit |-> 30,
       routes |-> [m \in DOMAIN x[2] |-> RoutesFromOrigin(m, x[2][m])]] :
        x \in (0..MaxDeltaTime)
              \X [(SweepInstant - MaxDeltaTime)..(SweepInstant + MaxDeltaTime)
                      -> {0, 10, 30}] }

InitCalls ==
    /\ data_storage = << >>
    /\ args \in ServiceArgs \cup TransportArgs \cup NumberChangesArgs \cup AverageArgs
    /\ pc = "ready"
    /\ ret = None
    /\ RoutingIdle
    /\ PlanIdle
    /\ IsochroneIdle

\* service.rs 74-126
CallService ==
    /\ pc = "ready"
    /\ args.call = "service"
    /\ ret' = service_compute_isochrones(args.start_date, args.end_date, args.params)
    /\ pc' = IF service_compute_isochrones(args.start_date, args.end_date,
                                           args.params).status = Panicked
             THEN "panic" ELSE "returned"
    /\ UNCHANGED <<data_storage, args, routing_vars, plan_vars, isochrone_vars>>

\* routing/models.rs 455-473
CallTransportFrom ==
    /\ pc = "ready"
    /\ args.call = "Transport::from"
    /\ ret' = transport_from(args.designation)
    /\ pc' = IF transport_from(args.designation) = "panic" THEN "panic" ELSE "returned"
    /\ UNCHANGED <<data_storage, args, routing_vars, plan_vars, isochrone_vars>>

\* routing/models.rs 269-279
CallNumberChanges ==
    /\ pc = "ready"
    /\ args.call = "number_changes"
    /\ \E result \in number_changes(args.route) :
          /\ ret' = result
          /\ pc' = IF result.outcome = "panic" THEN "panic" ELSE "returned"
    /\ UNCHANGED <<data_storage, args, routing_vars, plan_vars, isochrone_vars>>

\* isochrone.rs 235-299
CallAverageClouds ==
    /\ pc = "ready"
    /\ args.call = "compute_average_isochrones"
    /\ ret' = average_clouds(args.departure_at, args.delta_time, args.routes)
    /\ pc' = "returned"
    /\ UNCHANGED <<data_storage, args, routing_vars, plan_vars, isochrone_vars>>

NextCalls ==
    \/ CallService
    \/ CallTransportFrom
    \/ CallNumberChanges
    \/ CallAverageClouds

SpecCalls == InitCalls /\ [][NextCalls]_vars

Called(call) == pc \in {"returned", "panic"} /\ args.call = call

IsMultipleOf(n, m) == \E q \in 0..n : q * m = n

\* C23: the /isochrones handler answers 400 and starts no computation when
\* the departure date is outside [start_date, end_date], when time_limit is no
\* integer multiple of isochrone_interval (whatever the interval, 0 included)
\* or when display_mode is neither "circles" nor "contour_line"; it computes
\* the request otherwise.
C23_BadRequestsAreAnswered400 ==
    Called("service") =>
        IF \/ args.params.departure_date < args.start_date
           \/ args.params.departure_date > args.end_date
           \/ ~IsMultipleOf(args.params.time_limit, args.params.isochrone_interval)
           \/ args.params.display_mode \notin {"circles", "contour_line"}
        THEN pc = "returned" /\ ret = [status |-> 400, computed |-> "none"]
        ELSE pc = "returned" /\ ret.status = 200 /\ ret.computed # "none"

\* C24: the mapping from a designation to a Transport is total: it returns a
\* variant for every designation, known or not, and never aborts.
C24_TransportMappingIsTotal ==
    Called("Transport::from") => pc = "returned" /\ ret \in Transports

VehicleSections(route) ==
    Cardinality({ i \in 1..Len(route.sections) : route.sections[i].journey_id # None })

\* C25: number_changes never fails and returns the number of vehicle sections
\* minus one, walking sections not counted, never a negative number: 0 for a
\* direct journey and 0 for a result without sections.
C25_ChangesAreVehicleSectionsMinusOne ==
    Called("number_changes") =>
        /\ pc = "returned"
        /\ ret.outcome = "value"
        /\ ret.value >= 0
        /\ ret.value = IF args.route.sections = << >> THEN 0
                       ELSE VehicleSections(args.route) - 1

SweptMinutes ==
    collect(NaiveDateTimeRange(args.departure_at - args.delta_time,
                               args.departure_at + args.delta_time, 1))

\* C30: in compute_average_isochrones the travel time recorded for a stop in
\* the cloud of the swept minute m is the arrival at the stop minus m, and so
\* lies between 0 and time_limit, for every minute of the window.
C30_TravelTimeCountsFromTheSweptMinute ==
    Called("compute_average_isochrones") =>
        \A i \in 1..Len(ret) :
            \A id \in DOMAIN ret[i] :
                /\ \E n \in 1..Len(args.routes[SweptMinutes[i]]) :
                       ret[i][id][2] = route_result_arrival_at(args.routes[SweptMinutes[i]][n])
                                           - SweptMinutes[i]
                /\ ret[i][id][2] >= 0
                /\ ret[i][id][2] <= args.time_limit

\* the entries of the call's window that run on the route with the hash h
\* and leave time to change from the previous journey
BoardableOnRoute(h) ==
    With(DeparturesInWindow(args.stop_id, args.departure_at), LAMBDA journeys :
        { journeys[i] : i \in { n \in 1..Len(journeys) :
            /\ hash_route(JourneyOf(journeys[n][1]), args.stop_id) = h
            /\ EnoughTimeToEmbark(journeys[n], args.stop_id, args.departure_at,
                                  args.previous_journey_id) } })

ReturnedOnRoute(h) ==
    { i \in 1..Len(ret) : hash_route(JourneyOf(ret[i][1]), args.stop_id) = h }

\* C26: for each route (hash of the stops from the departure stop on) that
\* is not ignored, next_departures returns one journey whenever a journey of
\* the route leaves inside the window with the minimum connection time
\* respected, namely the earliest such journey, and never two journeys of one
\* route.
C26_EarliestBoardableJourneyOfEachRoute ==
    pc = "next_departures" =>
        \A h \in { hash_route(JourneyOf(id), args.stop_id) :
                      id \in DOMAIN data_storage.journeys } :
            /\ Cardinality(ReturnedOnRoute(h)) <= 1
            /\ BoardableOnRoute(h) # {} =>
                  \E i \in ReturnedOnRoute(h) :
                      /\ ret[i] \in BoardableOnRoute(h)
                      /\ \A e \in BoardableOnRoute(h) : ret[i][2] <= e[2]

\* ------------------------------------------------------------------------
\* C27
\* ------------------------------------------------------------------------
\* a step of explore_routes that explores the popped route: connections are
\* appended to the new routes or walking routes are pushed on the queue
ExploresCurrentRoute ==
    \/ new_routes' # new_routes
    \/ \E item \in queue' \ queue : last_section(item.route).journey_id = None

\* a step of compute_routing's loop keeps the recorded arrivals from growing
\* and explores only a route admitted at an exchange point
EarliestArrivalStep ==
    pc \in {"for", "explore_routes"} =>
    /\ \A s \in StopIds :
          earliest_arrival_by_stop_id[s] # None =>
              /\ earliest_arrival_by_stop_id'[s] # None
              /\ earliest_arrival_by_stop_id'[s] <= earliest_arrival_by_stop_id[s]
    /\ (pc = "explore_routes" /\ ExploresCurrentRoute) =>
          \E s \in {arrival_stop_id(current_route')} :
              /\ s \in StopIds
              /\ data_storage.stops[s].exchange_point
              /\ \/ earliest_arrival_by_stop_id[s] = None
                 \/ arrival_at(current_route') < earliest_arrival_by_stop_id[s]
              /\ earliest_arrival_by_stop_id'[s] = arrival_at(current_route')

\* C27: across all rounds of one compute_routing call the earliest arrival
\* recorded for a stop never increases, and the connections and foot
\* transfers of a route arriving at a stop are explored only if the stop is
\* an exchange point and the route arrives strictly earlier than what was
\* recorded, its arrival becoming the recorded one.
C27_EarliestArrivalOnlyDecreases ==
    [][EarliestArrivalStep]_vars

\* in a later round a route is admitted at a stop where a route arriving
\* later had been evaluated before
C27_Witness ==
    /\ pc = "explore_routes"
    /\ round >= 1
    /\ current_route # NoRoute
    /\ \E s \in {arrival_stop_id(current_route)} :
          /\ data_storage.stops[s].exchange_point
          /\ earliest_arrival_by_stop_id[s] = arrival_at(current_route)
          /\ \E c \in evaluated :
                /\ arrival_stop_id(c) = s
                /\ arrival_at(c) > arrival_at(current_route)

\* ------------------------------------------------------------------------
\* C28
\* ------------------------------------------------------------------------
\* the routes an iteration that found no connection to explore takes off the
\* queue besides the one it popped
Discarded ==
    With(HeapTop(queue), LAMBDA top :
        PushAll(queue \ {top}, seq,
                explore_last_route_section_more_if_possible(top.route)) \ queue')

\* an iteration of explore_routes takes off the queue the route it pops and
\* hands to can_continue_exploration, and nothing else but, when the guard
\* fires, the repeated route; what it pushes stays
OnlyThePoppedRouteLeaves ==
    (pc = "explore_routes" /\ queue # {}) =>
        /\ current_route' = HeapTop(queue).route
        /\ HeapTop(queue) \notin queue'
        /\ IF visited_routes' = visited_routes
           THEN /\ queue \ queue' = {HeapTop(queue)}
                /\ Cardinality(queue') = Cardinality(queue) - 1 + (seq' - seq)
           ELSE \A item \in Discarded : item.route = current_route'

\* C28: every route placed in the queue of explore_routes is popped and
\* passed to can_continue_exploration before explore_routes returns; when
\* the repeated-route guard fires only the repeated route is discarded, no
\* other queued route leaves the queue without being examined.
C28_NoRouteLeavesUnexamined ==
    [][OnlyThePoppedRouteLeaves]_vars

\* ------------------------------------------------------------------------
\* C29
\* ------------------------------------------------------------------------
\* the scan state after the label of the stop position about to be scanned
\* has been improved
LabelImproved ==
    improve_label(ScanState(labels[k + 1], earliest_arrival_times, marked_stops,
                            path[k], current_trip_index, current_trip_boarded_at),
                  storage.routes[scanned], stop_i_local_index)

\* C29: during a route scan of plan_journey the indexes computed while
\* walking the trips backward to catch an earlier trip stay inside the block
\* of stop times of the scanned route and the unsigned arithmetic never goes
\* below zero, for every route, the first stored route and its first trip
\* included.
C29_BackwardWalkStaysInsideTheBlock ==
    (pc = "scan" /\ scanned # None) =>
        \E rr \in {storage.routes[scanned]} :
        \E improved \in {LabelImproved} :
            improved.status = "scan" =>
                \E caught \in {catch_trip(improved, rr, stop_i_local_index)} :
                    /\ caught.status # "panic"
                    /\ caught.trip # None =>
                          /\ caught.trip + stop_i_local_index >= rr.stop_time_first_index
                          /\ caught.trip + stop_i_local_index <
                                 rr.stop_time_first_index + rr.stop_time_count

====
